---- MODULE Spec2Model ----
(***************************************************************************)
(* Event store (PgEventRepository over the domain_events table), the       *)
(* Resolution aggregate and the Rules command handlers of otherworlds-rpg. *)
(*                                                                         *)
(* The table lives in PostgreSQL.  pool.begin() opens a transaction at the *)
(* default isolation level (READ COMMITTED; the code sets no other): a     *)
(* statement sees the rows committed before it starts, an INSERT that      *)
(* meets an uncommitted row with the same unique key waits for that        *)
(* transaction to end, and dropping the transaction rolls it back.         *)
(***************************************************************************)
EXTENDS Integers, Sequences, FiniteSets, TLC

----------------------------------------------------------------------------
(* Bounds of the model *)

\* total number of handler commands started in one behaviour
MaxCommands == 4
\* total number of handler commands started in one behaviour that is checked
\* for progress
MaxLiveCommands == 3
\* total number of calls made on aggregates held in memory in one behaviour
MaxDomainCalls == 6
\* total number of direct repository calls started in one behaviour
MaxCalls == 2
\* largest difficulty class, in absolute value, determine_outcome is called with
\* in the bounded range
MaxDC == 2
\* longest list of stored events reconstitute is called with
MaxEvents == 3
\* largest sequence_number a direct caller of append_events puts on an event
MaxSeq == 2
\* largest expected_version a direct caller of append_events passes
MaxVersion == 1
\* the nanoseconds the clock reads (SystemClock: Utc::now())
MaxNanos == 1

\* nanoseconds per microsecond: TIMESTAMPTZ keeps microseconds
NanosPerMicro == 1000

Procs == {"t1", "t2"}
Aggregates == {"a1", "a2"}
\* readings of the injected Clock: a time with a part below the microsecond
ClockReadings == {MaxNanos}

----------------------------------------------------------------------------
(* State *)

VARIABLES
    table,        \* committed rows of domain_events
    pending,      \* per task: rows its open transaction has inserted
    pc,           \* per task: the await point (or lock) it stands at
    cmd,          \* per task: the command or store call it runs
    call,         \* per task: the arguments of its append_events call
    loaded,       \* per task: what its load_events returned
    resolution,   \* per task: its Resolution instance
    result,       \* per task: what it returned to its caller
    rngHolder,    \* the task holding the RNG mutex, or "none"
    rngDraws,     \* number of draws taken from the shared RNG
    nextEventId,  \* Uuid::new_v4(): the next fresh event id
    started,      \* number of commands started
    appended,     \* history: the events of every committed batch, as passed in
    overlapped,   \* history: per task, the tasks whose call ran while its own did
    overflow_checks, \* the build: TRUE when integer overflow panics, FALSE when it wraps
    agg,          \* per run: a Resolution held in memory, called directly
    rng,          \* per run: the DeterministicRng handed to resolve_check
    last,         \* per run: the last domain call and what it returned
    fn_in,        \* the arguments of a function called on its own
    fn_out        \* what that function returned, per call

\* the state of the store and the handlers
svars == <<table, pending, pc, cmd, call, loaded, resolution, result,
           rngHolder, rngDraws, nextEventId, started, appended, overlapped>>
\* the state of the aggregate and the functions called directly
dvars == <<overflow_checks, agg, rng, last, fn_in, fn_out>>
vars == <<svars, dvars>>

----------------------------------------------------------------------------
(* Option<T> as a sequence of length 0 or 1 *)

None == <<>>
Some(x) == <<x>>

Range(s) == {s[i] : i \in 1..Len(s)}

----------------------------------------------------------------------------
(* Event payloads *)

\* RulesEventKind, and its JSON form (serde's externally tagged enum): the tag
\* is the variant name, the other fields are the variant's body.
KindIntentDeclared(dc, modifier) ==
    [tag |-> "IntentDeclared", difficulty_class |-> dc, modifier |-> modifier,
     natural_roll |-> 0, total |-> 0, outcome |-> "", check_id |-> <<>>,
     effects |-> <<>>]

KindCheckResolved(check_id, roll, modifier, total, dc, outcome) ==
    [tag |-> "CheckResolved", difficulty_class |-> dc, modifier |-> modifier,
     natural_roll |-> roll, total |-> total, outcome |-> outcome,
     check_id |-> check_id, effects |-> <<>>]

KindEffectsProduced(effects) ==
    [tag |-> "EffectsProduced", difficulty_class |-> 0, modifier |-> 0,
     natural_roll |-> 0, total |-> 0, outcome |-> "", check_id |-> <<>>,
     effects |-> effects]

\* the payload of the event store's own tests: {"key": "value"}
TestPayload ==
    [tag |-> "key", difficulty_class |-> 0, modifier |-> 0,
     natural_roll |-> 0, total |-> 0, outcome |-> "", check_id |-> <<>>,
     effects |-> <<>>]

RulesTags == {"IntentDeclared", "CheckResolved", "EffectsProduced"}

\* DomainEvent::event_type of a RulesEvent
EventTypeOf(kind) ==
    CASE kind.tag = "IntentDeclared" -> "rules.intent_declared"
      [] kind.tag = "CheckResolved" -> "rules.check_resolved"
      [] kind.tag = "EffectsProduced" -> "rules.effects_produced"
      [] OTHER -> "TestEvent"

\* DomainEvent::to_payload: serde_json::to_value(&self.kind)
ToPayload(kind) == kind

\* serde_json::from_value::<RulesEventKind>: an unknown tag is an error
CanDeserialize(payload) == payload.tag \in RulesTags

----------------------------------------------------------------------------
(* The domain_events table *)

\* chrono's DateTime<Utc> counts nanoseconds; a TIMESTAMPTZ column keeps
\* whole microseconds
TruncMicros(t) == (t \div NanosPerMicro) * NanosPerMicro

\* the row an INSERT writes for a StoredEvent
ToRow(e) == [e EXCEPT !.occurred_at = TruncMicros(@)]

\* mutant: the table without UNIQUE (aggregate_id, sequence_number)
Clash_NoSeqUnique(r, s) == r.event_id = s.event_id

\* UNIQUE (aggregate_id, sequence_number) and PRIMARY KEY (event_id)
Clash(r, s) ==
    \/ r.event_id = s.event_id
    \/ r.aggregate_id = s.aggregate_id /\ r.sequence_number = s.sequence_number

RowsOf(T, id) == {r \in T : r.aggregate_id = id}

RECURSIVE SortBySeq(_)
SortBySeq(S) ==
    IF S = {} THEN <<>>
    ELSE LET m == CHOOSE r \in S : \A s \in S : r.sequence_number <= s.sequence_number
         IN <<m>> \o SortBySeq(S \ {m})

\* SELECT ... WHERE aggregate_id = $1 ORDER BY sequence_number ASC
\* mutant: the SELECT without its WHERE aggregate_id = $1
LoadEvents_NoWhere(T, id) == SortBySeq(T)

\* mutant: ORDER BY sequence_number DESC
LoadEvents_Desc(T, id) ==
    LET asc == SortBySeq(RowsOf(T, id))
    IN [i \in 1..Len(asc) |-> asc[Len(asc) + 1 - i]]

LoadEvents(T, id) == SortBySeq(RowsOf(T, id))

RECURSIVE SetMax(_)
SetMax(S) ==
    IF S = {} THEN 0
    ELSE LET x == CHOOSE v \in S : TRUE
             m == SetMax(S \ {x})
         IN IF x > m THEN x ELSE m

\* SELECT MAX(sequence_number) ... WHERE aggregate_id = $1, unwrap_or(0)
CurrentVersion(T, id) == SetMax({r.sequence_number : r \in RowsOf(T, id)})

----------------------------------------------------------------------------
(* i32 arithmetic: an overflow panics in a build with overflow checks and
   wraps in one without *)

I32Max == 2147483647
I32Min == (-I32Max) - 1

AddOverflows(a, b) ==
    \/ b > 0 /\ a > I32Max - b
    \/ b < 0 /\ a < I32Min - b

\* a + b modulo 2^32 in two's complement, computed without leaving the i32 range
WrappingAdd(a, b) ==
    IF b > 0 /\ a > I32Max - b THEN ((a - I32Max) + (b - 1)) + I32Min
    ELSE IF b < 0 /\ a < I32Min - b THEN ((a - I32Min) + (b + 1)) + I32Max
    ELSE a + b

----------------------------------------------------------------------------
(* DeterministicRng, as SequenceRng: the draws it will yield and an index *)

\* u32::MAX is 4294967295; the draws of the model stay below 2^31
U32Max == 2147483647

SequenceRng(values) == [u32_values |-> values, u32_index |-> 0]

\* mutant: the value is returned as it is
Clamp_Identity(val, min, max) == val

Clamp(val, min, max) == IF val < min THEN min ELSE IF val > max THEN max ELSE val

\* self.u32_values[self.u32_index] is out of bounds: the call panics
RngExhausted(g) == g.u32_index >= Len(g.u32_values)

next_u32_range(g, min, max) ==
    [value |-> Clamp(g.u32_values[g.u32_index + 1], min, max),
     rng |-> [g EXCEPT !.u32_index = @ + 1]]

----------------------------------------------------------------------------
(* The Resolution aggregate *)

NewResolution(id) ==
    [id |-> id, version |-> 0, phase |-> "Created", intent |-> None,
     check_result |-> None, effects |-> <<>>, uncommitted_events |-> <<>>]

\* mutant: one too far
NextSequenceNumber_OffByOne(r) == r.version + Len(r.uncommitted_events) + 2

NextSequenceNumber(r) == r.version + Len(r.uncommitted_events) + 1

RulesEvent(event_id, id, seq, now, kind) ==
    [metadata |-> [event_id |-> event_id, event_type |-> EventTypeOf(kind),
                   aggregate_id |-> id, sequence_number |-> seq, occurred_at |-> now],
     kind |-> kind]

\* what a domain method returns: Ok(()), Err(Validation), or a panic
DomainOk(r) == [ok |-> TRUE, panic |-> FALSE, resolution |-> r]
DomainErr(r) == [ok |-> FALSE, panic |-> FALSE, resolution |-> r]
DomainPanic(r) == [ok |-> FALSE, panic |-> TRUE, resolution |-> r]

\* mutant: the tiers by total are looked at before the natural roll
determine_outcome_TotalsFirst(natural_roll, total, dc) ==
    IF total >= dc + 10 THEN "CriticalSuccess"
    ELSE IF total >= dc /\ natural_roll # 1 THEN "Success"
    ELSE IF natural_roll = 1 THEN "CriticalFailure"
    ELSE IF natural_roll = 20 THEN "CriticalSuccess"
    ELSE IF total >= dc - 5 THEN "PartialSuccess"
    ELSE "Failure"

\* the CheckOutcome, or "panic" when dc + 10 or dc - 5 overflows in a build
\* with overflow checks
determine_outcome(natural_roll, total, dc) ==
    IF natural_roll = 1 THEN "CriticalFailure"
    ELSE IF natural_roll = 20 THEN "CriticalSuccess"
    ELSE IF overflow_checks /\ AddOverflows(dc, 10) THEN "panic"
    ELSE IF total >= WrappingAdd(dc, 10) THEN "CriticalSuccess"
    ELSE IF total >= dc THEN "Success"
    ELSE IF overflow_checks /\ AddOverflows(dc, -5) THEN "panic"
    ELSE IF total >= WrappingAdd(dc, -5) THEN "PartialSuccess"
    ELSE "Failure"

\* mutant: no phase check
DeclareIntentGuard_None(r) == TRUE

DeclareIntentGuard(r) == r.phase = "Created"

\* mutant: the method moves the aggregate to the next phase itself
declare_intent_SetsPhase(r, dc, modifier, event_id, now) ==
    IF ~DeclareIntentGuard(r) THEN DomainErr(r)
    ELSE DomainOk([r EXCEPT !.phase = "IntentDeclared",
                            !.uncommitted_events =
            Append(@, RulesEvent(event_id, r.id, NextSequenceNumber(r), now,
                                 KindIntentDeclared(dc, modifier)))])

declare_intent(r, dc, modifier, event_id, now) ==
    IF ~DeclareIntentGuard(r) THEN DomainErr(r)
    ELSE DomainOk([r EXCEPT !.uncommitted_events =
            Append(@, RulesEvent(event_id, r.id, NextSequenceNumber(r), now,
                                 KindIntentDeclared(dc, modifier)))])

\* mutant: no phase check
ResolveCheckGuard_None(r) == TRUE

ResolveCheckGuard(r) == r.phase = "IntentDeclared"

\* a domain result together with the RNG as the call left it
WithRng(d, g) == [ok |-> d.ok, panic |-> d.panic, resolution |-> d.resolution, rng |-> g]

\* mutant: the id is a fresh one, different at every call
CheckId_Fresh(hi, lo) == <<hi, lo, last["r1"].n + last["r2"].n>>

\* Uuid::from_u64_pair(bits, bits.wrapping_mul(..)) with bits = (hi << 32) | lo:
\* one id per pair of draws
CheckId(hi, lo) == <<hi, lo>>

\* resolve_check with the RNG g: the natural roll is the first draw, check_id
\* is made of two more
resolve_check(r, g, event_id, now) ==
    IF ~ResolveCheckGuard(r) THEN WithRng(DomainErr(r), g)
    ELSE IF r.intent = None \/ RngExhausted(g) THEN WithRng(DomainPanic(r), g)
    ELSE
      LET intent == r.intent[1]
          d1 == next_u32_range(g, 1, 20)
          natural_roll == d1.value
          total == WrappingAdd(natural_roll, intent.modifier)
          outcome == determine_outcome(natural_roll, total, intent.difficulty_class)
      IN IF \/ overflow_checks /\ AddOverflows(natural_roll, intent.modifier)
            \/ outcome = "panic"
            \/ RngExhausted(d1.rng)
         THEN WithRng(DomainPanic(r), d1.rng)
         ELSE
           LET d2 == next_u32_range(d1.rng, 0, U32Max)
           IN IF RngExhausted(d2.rng) THEN WithRng(DomainPanic(r), d2.rng)
              ELSE
                LET d3 == next_u32_range(d2.rng, 0, U32Max)
                    kind == KindCheckResolved(CheckId(d2.value, d3.value),
                                natural_roll, intent.modifier, total,
                                intent.difficulty_class, outcome)
                IN WithRng(DomainOk([r EXCEPT !.uncommitted_events =
                        Append(@, RulesEvent(event_id, r.id, NextSequenceNumber(r),
                                             now, kind))]),
                           d3.rng)

\* mutant: no phase check
ProduceEffectsGuard_None(r) == TRUE

ProduceEffectsGuard(r) == r.phase = "CheckResolved"

produce_effects(r, effects, event_id, now) ==
    IF ~ProduceEffectsGuard(r) THEN DomainErr(r)
    ELSE DomainOk([r EXCEPT !.uncommitted_events =
            Append(@, RulesEvent(event_id, r.id, NextSequenceNumber(r), now,
                                 KindEffectsProduced(effects)))])

\* mutant: clearing counts the cleared events as committed
clear_uncommitted_events_Commits(r) ==
    [r EXCEPT !.version = r.version + Len(r.uncommitted_events),
              !.uncommitted_events = <<>>]

\* clear_uncommitted_events: the buffer is emptied, nothing else changes
clear_uncommitted_events(r) == [r EXCEPT !.uncommitted_events = <<>>]

\* mutant: apply moves the phase and stores no payload
ApplyKind_PhaseOnly(r, k) == [r EXCEPT !.phase = k.tag]

\* the match of apply: phase and payload of the event's kind
ApplyKind(r, k) ==
    CASE k.tag = "IntentDeclared" ->
            [r EXCEPT !.phase = "IntentDeclared",
                      !.intent = Some([difficulty_class |-> k.difficulty_class,
                                       modifier |-> k.modifier])]
      [] k.tag = "CheckResolved" ->
            [r EXCEPT !.phase = "CheckResolved",
                      !.check_result = Some([check_id |-> k.check_id,
                                             natural_roll |-> k.natural_roll,
                                             modifier |-> k.modifier,
                                             total |-> k.total,
                                             difficulty_class |-> k.difficulty_class,
                                             outcome |-> k.outcome])]
      [] OTHER ->
            [r EXCEPT !.phase = "EffectsProduced", !.effects = k.effects]

\* mutant: the version is taken from the event
apply_VersionFromEvent(r, event) ==
    [ApplyKind(r, event.kind) EXCEPT !.version = event.metadata.sequence_number]

\* mutant: an event that is not the next of the phase order is ignored
apply_Guarded(r, event) ==
    IF \/ event.kind.tag = "IntentDeclared" /\ r.phase = "Created"
       \/ event.kind.tag = "CheckResolved" /\ r.phase = "IntentDeclared"
       \/ event.kind.tag = "EffectsProduced" /\ r.phase = "CheckResolved"
    THEN [ApplyKind(r, event.kind) EXCEPT !.version = @ + 1]
    ELSE r

\* AggregateRoot::apply
apply(r, event) == [ApplyKind(r, event.kind) EXCEPT !.version = @ + 1]

to_stored_event(event) ==
    [event_id |-> event.metadata.event_id,
     aggregate_id |-> event.metadata.aggregate_id,
     event_type |-> EventTypeOf(event.kind),
     payload |-> ToPayload(event.kind),
     sequence_number |-> event.metadata.sequence_number,
     occurred_at |-> event.metadata.occurred_at]

\* the RulesEvent that reconstitute builds from a stored event
FromStored(stored) ==
    [metadata |-> [event_id |-> stored.event_id, event_type |-> stored.event_type,
                   aggregate_id |-> stored.aggregate_id,
                   sequence_number |-> stored.sequence_number,
                   occurred_at |-> stored.occurred_at],
     kind |-> stored.payload]

RECURSIVE ApplyAll(_, _)
ApplyAll(r, events) ==
    IF events = <<>> THEN r
    ELSE ApplyAll(apply(r, FromStored(Head(events))), Tail(events))

\* mutant: the last stored event is not applied
reconstitute_DropsLast(id, existing_events) ==
    IF \E i \in 1..Len(existing_events) : ~CanDeserialize(existing_events[i].payload)
    THEN DomainErr(NewResolution(id))
    ELSE DomainOk(ApplyAll(NewResolution(id),
                           SubSeq(existing_events, 1, Len(existing_events) - 1)))

\* a stored event whose payload is a RulesEventKind
Deserializable(stored) == CanDeserialize(stored.payload)

\* mutant: a payload that does not deserialize is skipped
reconstitute_SkipsMalformed(id, existing_events) ==
    DomainOk(ApplyAll(NewResolution(id), SelectSeq(existing_events, Deserializable)))

\* reconstitute: Err(Infrastructure) at the first payload that does not deserialize
reconstitute(id, existing_events) ==
    IF \E i \in 1..Len(existing_events) : ~CanDeserialize(existing_events[i].payload)
    THEN DomainErr(NewResolution(id))
    ELSE DomainOk(ApplyAll(NewResolution(id), existing_events))

StoredEvents(r) ==
    [i \in 1..Len(r.uncommitted_events) |-> to_stored_event(r.uncommitted_events[i])]

----------------------------------------------------------------------------
(* Commands, calls and results *)

NoCommand ==
    [kind |-> "None", aggregate_id |-> "", difficulty_class |-> 0, modifier |-> 0,
     effects |-> <<>>]
NoCall == [aggregate_id |-> "", expected_version |-> 0, events |-> <<>>]

\* what a task returned: Result<_, DomainError>, and Cancelled when the task was
\* dropped at an await point
ResNone ==
    [tag |-> "None", aggregate_id |-> "", expected |-> 0, actual |-> 0,
     at |-> "", events |-> <<>>, view |-> None]
ResOk(events) == [ResNone EXCEPT !.tag = "Ok", !.events = events]
ResConflict(id, expected, actual, at) ==
    [ResNone EXCEPT !.tag = "ConcurrencyConflict", !.aggregate_id = id,
                    !.expected = expected, !.actual = actual, !.at = at]
ResValidation == [ResNone EXCEPT !.tag = "Validation"]
ResInfrastructure(at) == [ResNone EXCEPT !.tag = "Infrastructure", !.at = at]
ResCancelled(at) == [ResNone EXCEPT !.tag = "Cancelled", !.at = at]
ResNotFound(id) == [ResNone EXCEPT !.tag = "AggregateNotFound", !.aggregate_id = id]
\* Ok(ResolutionView)
ResView(v) == [ResNone EXCEPT !.tag = "Ok", !.view = Some(v)]
\* the task unwound from a panic
ResPanicked == [ResNone EXCEPT !.tag = "Panicked"]

InitStore ==
    /\ table = {}
    /\ pending = [p \in Procs |-> {}]
    /\ pc = [p \in Procs |-> "idle"]
    /\ cmd = [p \in Procs |-> NoCommand]
    /\ call = [p \in Procs |-> NoCall]
    /\ loaded = [p \in Procs |-> <<>>]
    /\ resolution = [p \in Procs |-> NewResolution("")]
    /\ result = [p \in Procs |-> ResNone]
    /\ rngHolder = "none"
    /\ rngDraws = 0
    /\ nextEventId = 1
    /\ started = 0
    /\ appended = {}
    /\ overlapped = [p \in Procs |-> {}]

Runs == {"r1", "r2"}

\* the last call made on a run's aggregate: the method, what it returned, the
\* raw values it drew from the RNG, and the number of calls made so far (of
\* the domain methods and apply); applies counts the apply calls, supplied is the
\* list given to the last produce_effects, and stage is how far the calls
\* made so far follow Lifecycle (-1 once they have left it)
NoDomainCall ==
    [method |-> "none", ok |-> FALSE, panic |-> FALSE, drawn |-> <<>>, n |-> 0,
     applies |-> 0, supplied |-> <<>>, stage |-> 0]

\* the aggregate and the functions are not called on their own
InitDomainIdle ==
    /\ overflow_checks = TRUE
    /\ agg = [r \in Runs |-> NewResolution("")]
    /\ rng = [r \in Runs |-> SequenceRng(<<>>)]
    /\ last = [r \in Runs |-> NoDomainCall]
    /\ fn_in = <<>>
    /\ fn_out = <<>>

Init == InitStore /\ InitDomainIdle

----------------------------------------------------------------------------
(* Starting a command *)

Running(q) == pc[q] \notin {"idle", "done"}

\* task p starts command c: its previous command's record is replaced
Start(p, c, limit) ==
    /\ pc[p] \in {"idle", "done"}
    /\ started < limit
    /\ started' = started + 1
    /\ cmd' = [cmd EXCEPT ![p] = c]
    /\ loaded' = [loaded EXCEPT ![p] = <<>>]
    /\ overlapped' = [q \in Procs |->
            IF q = p THEN {r \in Procs \ {p} : Running(r)}
            ELSE IF Running(q) THEN overlapped[q] \cup {p}
            ELSE overlapped[q] \ {p}]

Finish(p, res) ==
    /\ pc' = [pc EXCEPT ![p] = "done"]
    /\ result' = [result EXCEPT ![p] = res]

\* mutant: no early return for an empty batch
AppendEnter_NoEmptyCheck(p, id, expected_version, events) ==
    /\ call' = [call EXCEPT ![p] = [aggregate_id |-> id,
                                    expected_version |-> expected_version,
                                    events |-> events]]
    /\ pc' = [pc EXCEPT ![p] = "begin"]
    /\ result' = [result EXCEPT ![p] = ResNone]

\* the first lines of append_events: an empty batch returns Ok at once
AppendEnter(p, id, expected_version, events) ==
    /\ call' = [call EXCEPT ![p] = [aggregate_id |-> id,
                                    expected_version |-> expected_version,
                                    events |-> events]]
    /\ IF events = <<>>
       THEN Finish(p, ResOk(<<>>))
       ELSE /\ pc' = [pc EXCEPT ![p] = "begin"]
            /\ result' = [result EXCEPT ![p] = ResNone]

----------------------------------------------------------------------------
(* PgEventRepository::append_events, one action per await point *)

\* pool.begin()
Begin(p) ==
    /\ pc[p] = "begin"
    /\ pc' = [pc EXCEPT ![p] = "check"]
    /\ UNCHANGED <<table, pending, cmd, call, loaded, resolution, result,
                   rngHolder, rngDraws, nextEventId, started, appended, overlapped>>
    /\ UNCHANGED dvars

\* mutant: the version is read but not compared
CheckVersion_NoCompare(p) ==
    /\ pc[p] = "check"
    /\ pc' = [pc EXCEPT ![p] = "insert"]
    /\ UNCHANGED <<table, pending, cmd, call, loaded, resolution, result,
                   rngHolder, rngDraws, nextEventId, started, appended, overlapped>>
    /\ UNCHANGED dvars

\* mutant: on a version mismatch the caller loads again and retries
CheckVersion_Retry(p) ==
    /\ pc[p] = "check"
    /\ LET actual_version == CurrentVersion(table, call[p].aggregate_id)
       IN IF actual_version # call[p].expected_version
          THEN pc' = [pc EXCEPT ![p] = "load"]
          ELSE pc' = [pc EXCEPT ![p] = "insert"]
    /\ UNCHANGED <<table, pending, cmd, call, loaded, resolution, result,
                   rngHolder, rngDraws, nextEventId, started, appended, overlapped>>
    /\ UNCHANGED dvars

\* mutant: a version equal to the expected one is refused as well
CheckVersion_RefusesEqual(p) ==
    /\ pc[p] = "check"
    /\ LET actual_version == CurrentVersion(table, call[p].aggregate_id)
       IN IF actual_version >= call[p].expected_version
          THEN Finish(p, ResConflict(call[p].aggregate_id, call[p].expected_version,
                                     actual_version, "check"))
          ELSE /\ pc' = [pc EXCEPT ![p] = "insert"]
               /\ UNCHANGED result
    /\ UNCHANGED <<table, pending, cmd, call, loaded, resolution,
                   rngHolder, rngDraws, nextEventId, started, appended, overlapped>>
    /\ UNCHANGED dvars

\* SELECT MAX(sequence_number) inside the transaction, then the comparison
CheckVersion(p) ==
    /\ pc[p] = "check"
    /\ LET actual_version == CurrentVersion(table, call[p].aggregate_id)
       IN IF actual_version # call[p].expected_version
          THEN Finish(p, ResConflict(call[p].aggregate_id, call[p].expected_version,
                                     actual_version, "check"))
          ELSE /\ pc' = [pc EXCEPT ![p] = "insert"]
               /\ UNCHANGED result
    /\ UNCHANGED <<table, pending, cmd, call, loaded, resolution,
                   rngHolder, rngDraws, nextEventId, started, appended, overlapped>>
    /\ UNCHANGED dvars

BatchRows(p) == {ToRow(e) : e \in Range(call[p].events)}

\* the batch breaks a unique index against itself or against a committed row
UniqueViolation(p) ==
    LET ev == call[p].events
    IN \/ \E i, j \in 1..Len(ev) : i < j /\ Clash(ev[i], ev[j])
       \/ \E r \in BatchRows(p), s \in table : Clash(r, s)

\* a row of the batch meets an uncommitted row of another open transaction
WaitsForOther(p) ==
    \E q \in Procs \ {p} : \E r \in BatchRows(p), s \in pending[q] : Clash(r, s)

\* mutant: the rows are inserted one by one outside a transaction
Insert_RowByRow(p) ==
    /\ pc[p] = "insert"
    /\ \/ /\ UniqueViolation(p)
          /\ pc' = [pc EXCEPT ![p] = "requery"]
          /\ LET ev == call[p].events
                 bad(i) == \/ \E s \in table : Clash(ToRow(ev[i]), s)
                           \/ \E j \in 1..(i - 1) : Clash(ev[i], ev[j])
                 before == {k \in 1..Len(ev) : \A j \in 1..k : ~bad(j)}
             IN table' = table \cup {ToRow(ev[i]) : i \in before}
          /\ UNCHANGED pending
       \/ /\ ~UniqueViolation(p)
          /\ ~WaitsForOther(p)
          /\ pending' = [pending EXCEPT ![p] = BatchRows(p)]
          /\ pc' = [pc EXCEPT ![p] = "commit"]
          /\ UNCHANGED table
    /\ UNCHANGED <<cmd, call, loaded, resolution, result,
                   rngHolder, rngDraws, nextEventId, started, appended, overlapped>>
    /\ UNCHANGED dvars

\* INSERT ... SELECT * FROM UNNEST(...): one statement, all rows or none
Insert(p) ==
    /\ pc[p] = "insert"
    /\ \/ /\ UniqueViolation(p)
          /\ pc' = [pc EXCEPT ![p] = "requery"]
          /\ UNCHANGED pending
       \/ /\ ~UniqueViolation(p)
          /\ ~WaitsForOther(p)
          /\ pending' = [pending EXCEPT ![p] = BatchRows(p)]
          /\ pc' = [pc EXCEPT ![p] = "commit"]
    /\ UNCHANGED <<table, cmd, call, loaded, resolution, result,
                   rngHolder, rngDraws, nextEventId, started, appended, overlapped>>
    /\ UNCHANGED dvars

\* mutant: the conflict reports the version read inside the transaction
Requery_StaleVersion(p) ==
    /\ pc[p] = "requery"
    /\ Finish(p, ResConflict(call[p].aggregate_id, call[p].expected_version,
                             call[p].expected_version, "requery"))
    /\ UNCHANGED <<table, pending, cmd, call, loaded, resolution,
                   rngHolder, rngDraws, nextEventId, started, appended, overlapped>>
    /\ UNCHANGED dvars

\* map_sqlx_error on a unique violation: current_version on the pool
Requery(p) ==
    /\ pc[p] = "requery"
    /\ Finish(p, ResConflict(call[p].aggregate_id, call[p].expected_version,
                             CurrentVersion(table, call[p].aggregate_id), "requery"))
    /\ UNCHANGED <<table, pending, cmd, call, loaded, resolution,
                   rngHolder, rngDraws, nextEventId, started, appended, overlapped>>
    /\ UNCHANGED dvars

\* tx.commit() reaches the server: the rows become visible
ServerCommit(p) ==
    /\ pc[p] = "commit"
    /\ table' = table \cup pending[p]
    /\ pending' = [pending EXCEPT ![p] = {}]
    /\ appended' = appended \cup Range(call[p].events)
    /\ pc' = [pc EXCEPT ![p] = "committed"]
    /\ UNCHANGED <<cmd, call, loaded, resolution, result,
                   rngHolder, rngDraws, nextEventId, started, overlapped>>
    /\ UNCHANGED dvars

\* tx.commit().await returns: Ok(()); a handler returns Ok(stored_events)
CommitAck(p) ==
    /\ pc[p] = "committed"
    /\ Finish(p, ResOk(IF cmd[p].kind = "Append" THEN <<>> ELSE call[p].events))
    /\ UNCHANGED <<table, pending, cmd, call, loaded, resolution,
                   rngHolder, rngDraws, nextEventId, started, appended, overlapped>>
    /\ UNCHANGED dvars

AwaitPoints == {"load", "begin", "check", "insert", "requery", "commit", "committed"}

\* where a failed or dropped call stood: in load_events, in append_events before
\* the server committed, or after it
FailPoint(stage) ==
    IF stage \in {"load", "committed"} THEN stage ELSE "append"

\* the awaited database call fails (connection loss, ...): map_err gives
\* Infrastructure, and the dropped transaction is rolled back
InfraFail(p) ==
    /\ pc[p] \in AwaitPoints
    /\ pending' = [pending EXCEPT ![p] = {}]
    /\ Finish(p, ResInfrastructure(FailPoint(pc[p])))
    /\ UNCHANGED <<table, cmd, call, loaded, resolution,
                   rngHolder, rngDraws, nextEventId, started, appended, overlapped>>
    /\ UNCHANGED dvars

\* mutant: dropping the task takes back what the server committed
Cancel_UndoesCommit(p) ==
    /\ pc[p] \in AwaitPoints
    /\ pending' = [pending EXCEPT ![p] = {}]
    /\ table' = IF pc[p] = "committed" THEN table \ BatchRows(p) ELSE table
    /\ Finish(p, ResCancelled(FailPoint(pc[p])))
    /\ UNCHANGED <<cmd, call, loaded, resolution,
                   rngHolder, rngDraws, nextEventId, started, appended, overlapped>>
    /\ UNCHANGED dvars

\* the task is dropped at an await point: its caller never sees a result
Cancel(p) ==
    /\ pc[p] \in AwaitPoints
    /\ pending' = [pending EXCEPT ![p] = {}]
    /\ Finish(p, ResCancelled(FailPoint(pc[p])))
    /\ UNCHANGED <<table, cmd, call, loaded, resolution,
                   rngHolder, rngDraws, nextEventId, started, appended, overlapped>>
    /\ UNCHANGED dvars

----------------------------------------------------------------------------
(* Direct callers of the repository, as in the event store's tests *)

\* make_stored_event(aggregate_id, sequence_number) with a fresh event id
TestEvent(event_id, id, seq, now) ==
    [event_id |-> event_id, aggregate_id |-> id, event_type |-> "TestEvent",
     payload |-> TestPayload, sequence_number |-> seq, occurred_at |-> now]

EventShapes == [aggregate_id : Aggregates, sequence_number : 1..MaxSeq]

BatchShapes ==
    {<<>>} \cup {<<a>> : a \in EventShapes}
           \cup {<<a, b>> : a \in EventShapes, b \in EventShapes}

\* occurred_at: Utc::now(), here a reading with a part below the microsecond
MakeBatch(shapes, first_id) ==
    [i \in 1..Len(shapes) |->
        TestEvent(first_id + i - 1, shapes[i].aggregate_id,
                  shapes[i].sequence_number, MaxNanos)]

\* the aggregate the direct callers append to; their events name any aggregate
AppendTargets == {"a1"}

\* repo.append_events(id, expected_version, &events)
CallAppend(p) ==
    \E id \in AppendTargets, v \in 0..MaxVersion, shapes \in BatchShapes :
        /\ Start(p, [NoCommand EXCEPT !.kind = "Append", !.aggregate_id = id], MaxCalls)
        /\ AppendEnter(p, id, v, MakeBatch(shapes, nextEventId))
        /\ nextEventId' = nextEventId + Len(shapes)
        /\ UNCHANGED <<table, pending, resolution, rngHolder, rngDraws, appended>>
        /\ UNCHANGED dvars

\* repo.load_events(id) is called
CallLoad(p) ==
    \E id \in Aggregates :
        /\ Start(p, [NoCommand EXCEPT !.kind = "Load", !.aggregate_id = id], MaxCalls)
        /\ pc' = [pc EXCEPT ![p] = "load"]
        /\ result' = [result EXCEPT ![p] = ResNone]
        /\ call' = [call EXCEPT ![p] = NoCall]
        /\ UNCHANGED <<table, pending, resolution, rngHolder, rngDraws,
                       nextEventId, appended>>
        /\ UNCHANGED dvars

\* the SELECT of load_events runs and its rows are returned
LoadReturn(p) ==
    /\ pc[p] = "load"
    /\ cmd[p].kind = "Load"
    /\ loaded' = [loaded EXCEPT ![p] = LoadEvents(table, cmd[p].aggregate_id)]
    /\ Finish(p, ResOk(LoadEvents(table, cmd[p].aggregate_id)))
    /\ UNCHANGED <<table, pending, cmd, call, resolution,
                   rngHolder, rngDraws, nextEventId, started, appended, overlapped>>
    /\ UNCHANGED dvars

StoreStep(p) ==
    \/ Begin(p)
    \/ CheckVersion(p)
    \/ Insert(p)
    \/ Requery(p)
    \/ ServerCommit(p)
    \/ CommitAck(p)
    \/ InfraFail(p)
    \/ Cancel(p)

NextStore == \E p \in Procs : CallAppend(p) \/ CallLoad(p) \/ LoadReturn(p) \/ StoreStep(p)

SpecStore == Init /\ [][NextStore]_vars

----------------------------------------------------------------------------
(* The Rules command handlers *)

\* values the commands and the injected Clock and RNG are drawn from
DifficultyClasses == {15}
Modifiers == {3}
NaturalRolls == {1, 15}
\* what the shared RNG yields for the halves of check_id
CheckIdDraws == {7}
EffectLists == {<<[effect_type |-> "damage", amount |-> 8]>>}

Commands ==
    {[NoCommand EXCEPT !.kind = "DeclareIntent", !.aggregate_id = id,
                       !.difficulty_class = dc, !.modifier = m] :
        id \in Aggregates, dc \in DifficultyClasses, m \in Modifiers}
    \cup {[NoCommand EXCEPT !.kind = "ResolveCheck", !.aggregate_id = id] :
        id \in Aggregates}
    \cup {[NoCommand EXCEPT !.kind = "ProduceEffects", !.aggregate_id = id,
                            !.effects = e] :
        id \in Aggregates, e \in EffectLists}
    \cup {[NoCommand EXCEPT !.kind = "GetResolution", !.aggregate_id = id] :
        id \in Aggregates}

\* a handler is called and awaits repo.load_events(command.resolution_id);
\* limit bounds the number of commands of a run
SubmitUpTo(p, limit) ==
    \E c \in Commands :
        /\ Start(p, c, limit)
        /\ pc' = [pc EXCEPT ![p] = "load"]
        /\ result' = [result EXCEPT ![p] = ResNone]
        /\ call' = [call EXCEPT ![p] = NoCall]
        /\ resolution' = [resolution EXCEPT ![p] = NewResolution(c.aggregate_id)]
        /\ UNCHANGED <<table, pending, rngHolder, rngDraws, nextEventId, appended>>
        /\ UNCHANGED dvars

Submit(p) == SubmitUpTo(p, MaxCommands)

\* mutant: append_events is called before the result of the domain method is
\* looked at
AfterDomain_AppendFirst(p, d) ==
    /\ resolution' = [resolution EXCEPT ![p] = d.resolution]
    /\ IF d.ok
       THEN /\ AppendEnter(p, cmd[p].aggregate_id, d.resolution.version,
                           StoredEvents(d.resolution))
            /\ nextEventId' = nextEventId + 1
       ELSE /\ call' = [call EXCEPT ![p] = [aggregate_id |-> cmd[p].aggregate_id,
                                           expected_version |-> d.resolution.version,
                                           events |-> StoredEvents(d.resolution)]]
            /\ Finish(p, IF d.panic THEN ResPanicked ELSE ResValidation)
            /\ UNCHANGED nextEventId

\* mutant: the version passed to append_events counts the pending event
AfterDomain_VersionAfter(p, d) ==
    /\ resolution' = [resolution EXCEPT ![p] = d.resolution]
    /\ IF d.ok
       THEN /\ AppendEnter(p, cmd[p].aggregate_id,
                           d.resolution.version
                               + Len(d.resolution.uncommitted_events),
                           StoredEvents(d.resolution))
            /\ nextEventId' = nextEventId + 1
       ELSE /\ Finish(p, IF d.panic THEN ResPanicked ELSE ResValidation)
            /\ UNCHANGED <<call, nextEventId>>

\* the rest of a handler after its domain method returned d: `?` on an error,
\* else append_events(resolution_id, resolution.version, &stored_events)
AfterDomain(p, d) ==
    /\ resolution' = [resolution EXCEPT ![p] = d.resolution]
    /\ IF d.ok
       THEN /\ AppendEnter(p, cmd[p].aggregate_id, d.resolution.version,
                           StoredEvents(d.resolution))
            /\ nextEventId' = nextEventId + 1
       ELSE /\ Finish(p, IF d.panic THEN ResPanicked ELSE ResValidation)
            /\ UNCHANGED <<call, nextEventId>>

\* handle_declare_intent from the return of load_events to the call of append_events
HandleDeclareIntent(p) ==
    /\ pc[p] = "load"
    /\ cmd[p].kind = "DeclareIntent"
    /\ LET existing_events == LoadEvents(table, cmd[p].aggregate_id)
           rec == reconstitute(cmd[p].aggregate_id, existing_events)
       IN /\ loaded' = [loaded EXCEPT ![p] = existing_events]
          /\ IF ~rec.ok
             THEN /\ Finish(p, ResInfrastructure("reconstitute"))
                  /\ UNCHANGED <<call, resolution, nextEventId>>
             ELSE \E now \in ClockReadings :
                    \* d: what declare_intent returned
                    \E d \in {declare_intent(rec.resolution, cmd[p].difficulty_class,
                                              cmd[p].modifier, nextEventId, now)} :
                        AfterDomain(p, d)
    /\ UNCHANGED <<table, pending, cmd, rngHolder, rngDraws, started, appended, overlapped>>
    /\ UNCHANGED dvars

\* handle_produce_effects from the return of load_events to the call of append_events
HandleProduceEffects(p) ==
    /\ pc[p] = "load"
    /\ cmd[p].kind = "ProduceEffects"
    /\ LET existing_events == LoadEvents(table, cmd[p].aggregate_id)
           rec == reconstitute(cmd[p].aggregate_id, existing_events)
       IN /\ loaded' = [loaded EXCEPT ![p] = existing_events]
          /\ IF ~rec.ok
             THEN /\ Finish(p, ResInfrastructure("reconstitute"))
                  /\ UNCHANGED <<call, resolution, nextEventId>>
             ELSE \E now \in ClockReadings :
                    \* d: what produce_effects returned
                    \E d \in {produce_effects(rec.resolution, cmd[p].effects,
                                               nextEventId, now)} :
                        AfterDomain(p, d)
    /\ UNCHANGED <<table, pending, cmd, rngHolder, rngDraws, started, appended, overlapped>>
    /\ UNCHANGED dvars

\* handle_resolve_check from the return of load_events to rng.lock()
HandleResolveCheck(p) ==
    /\ pc[p] = "load"
    /\ cmd[p].kind = "ResolveCheck"
    /\ LET existing_events == LoadEvents(table, cmd[p].aggregate_id)
           rec == reconstitute(cmd[p].aggregate_id, existing_events)
       IN /\ loaded' = [loaded EXCEPT ![p] = existing_events]
          /\ IF ~rec.ok
             THEN /\ Finish(p, ResInfrastructure("reconstitute"))
                  /\ UNCHANGED resolution
             ELSE /\ pc' = [pc EXCEPT ![p] = "lock"]
                  /\ resolution' = [resolution EXCEPT ![p] = rec.resolution]
                  /\ UNCHANGED result
    /\ UNCHANGED <<table, pending, cmd, call, rngHolder, rngDraws, nextEventId,
                   started, appended, overlapped>>
    /\ UNCHANGED dvars

\* mutant: the lock is granted while another task holds it
LockRng_NoExclusion(p) ==
    /\ pc[p] = "lock"
    /\ IF rngHolder = "poisoned"
       THEN /\ Finish(p, ResInfrastructure("lock"))
            /\ UNCHANGED rngHolder
       ELSE /\ rngHolder' = p
            /\ pc' = [pc EXCEPT ![p] = "locked"]
            /\ UNCHANGED result
    /\ UNCHANGED <<table, pending, cmd, call, loaded, resolution, rngDraws,
                   nextEventId, started, appended, overlapped>>
    /\ UNCHANGED dvars

\* mutant: a poisoned lock is granted like a free one
LockRng_IgnoresPoison(p) ==
    /\ pc[p] = "lock"
    /\ rngHolder \in {"none", "poisoned"}
    /\ rngHolder' = p
    /\ pc' = [pc EXCEPT ![p] = "locked"]
    /\ UNCHANGED <<table, pending, cmd, call, loaded, resolution, result, rngDraws,
                   nextEventId, started, appended, overlapped>>
    /\ UNCHANGED dvars

\* rng.lock() returns: the guard once no task holds the lock, or a PoisonError,
\* mapped to Infrastructure, once a task has panicked while holding it
LockRng(p) ==
    /\ pc[p] = "lock"
    /\ rngHolder \in {"none", "poisoned"}
    /\ IF rngHolder = "poisoned"
       THEN /\ Finish(p, ResInfrastructure("lock"))
            /\ UNCHANGED rngHolder
       ELSE /\ rngHolder' = p
            /\ pc' = [pc EXCEPT ![p] = "locked"]
            /\ UNCHANGED result
    /\ UNCHANGED <<table, pending, cmd, call, loaded, resolution, rngDraws,
                   nextEventId, started, appended, overlapped>>
    /\ UNCHANGED dvars

\* mutant: the natural roll is drawn before the phase is looked at
DrawNaturalRoll_BeforeGuard(p) ==
    /\ pc[p] = "locked"
    /\ rngHolder = p
    /\ rngDraws' = rngDraws + 1
    /\ IF ~ResolveCheckGuard(resolution[p])
       THEN /\ AfterDomain(p, DomainErr(resolution[p]))
            /\ rngHolder' = "none"
       ELSE /\ pc' = [pc EXCEPT ![p] = "rolled"]
            /\ UNCHANGED <<call, resolution, result, rngHolder, nextEventId>>
    /\ UNCHANGED <<table, pending, cmd, loaded, started, appended, overlapped>>
    /\ UNCHANGED dvars

\* resolve_check under the lock up to its first draw: the phase guard (a
\* Validation error drops the guard of the lock), the intent, and
\* rng.next_u32_range(1, 20)
DrawNaturalRoll(p) ==
    /\ pc[p] = "locked"
    /\ rngHolder = p
    /\ IF ~ResolveCheckGuard(resolution[p])
       THEN /\ AfterDomain(p, DomainErr(resolution[p]))
            /\ rngHolder' = "none"
            /\ UNCHANGED rngDraws
       ELSE IF resolution[p].intent = None
       THEN /\ AfterDomain(p, DomainPanic(resolution[p]))
            /\ rngHolder' = "poisoned"
            /\ UNCHANGED rngDraws
       ELSE /\ rngDraws' = rngDraws + 1
            /\ pc' = [pc EXCEPT ![p] = "rolled"]
            /\ UNCHANGED <<call, resolution, result, rngHolder, nextEventId>>
    /\ UNCHANGED <<table, pending, cmd, loaded, started, appended, overlapped>>
    /\ UNCHANGED dvars

\* mutant: the guard lives to the end of the handler and is never dropped
RunResolveCheck_GuardOutlivesBlock(p) ==
    /\ pc[p] = "rolled"
    /\ \E natural_roll \in NaturalRolls, hi \in CheckIdDraws, lo \in CheckIdDraws,
          now \in ClockReadings :
        \* d: what resolve_check returned
        \E d \in {resolve_check(resolution[p], SequenceRng(<<natural_roll, hi, lo>>),
                                 nextEventId, now)} :
           /\ AfterDomain(p, d)
           /\ rngDraws' = rngDraws + d.rng.u32_index - 1
           /\ rngHolder' = p
    /\ UNCHANGED <<table, pending, cmd, loaded, started, appended, overlapped>>
    /\ UNCHANGED dvars

\* the rest of resolve_check under the lock, with the value the first draw
\* gave (nothing reads it before this step): total and outcome, the two draws
\* of check_id, the event; then the guard is dropped at the end of the block
\* and append_events is called
RunResolveCheck(p) ==
    /\ pc[p] = "rolled"
    /\ \E natural_roll \in NaturalRolls, hi \in CheckIdDraws, lo \in CheckIdDraws,
          now \in ClockReadings :
        \* d: what resolve_check returned
        \E d \in {resolve_check(resolution[p], SequenceRng(<<natural_roll, hi, lo>>),
                                 nextEventId, now)} :
           /\ AfterDomain(p, d)
           /\ rngDraws' = rngDraws + d.rng.u32_index - 1
           \* a panic inside the block poisons the mutex
           /\ rngHolder' = IF d.panic THEN "poisoned" ELSE "none"
    /\ UNCHANGED <<table, pending, cmd, loaded, started, appended, overlapped>>
    /\ UNCHANGED dvars

\* Resolution::phase_name: the phase in snake case
phase_name(r) ==
    CASE r.phase = "Created" -> "created"
      [] r.phase = "IntentDeclared" -> "intent_declared"
      [] r.phase = "CheckResolved" -> "check_resolved"
      [] r.phase = "EffectsProduced" -> "effects_produced"

ResolutionView(resolution_id, r) ==
    [resolution_id |-> resolution_id, phase |-> phase_name(r), intent |-> r.intent,
     check_result |-> r.check_result, effects |-> r.effects, version |-> r.version]

\* mutant: the history is not tested for emptiness
get_resolution_by_id_NoEmptyCheck(p) ==
    /\ pc[p] = "load"
    /\ cmd[p].kind = "GetResolution"
    /\ LET stored_events == LoadEvents(table, cmd[p].aggregate_id)
           rec == reconstitute(cmd[p].aggregate_id, stored_events)
       IN /\ loaded' = [loaded EXCEPT ![p] = stored_events]
          /\ resolution' = [resolution EXCEPT ![p] = rec.resolution]
          /\ Finish(p, ResView(ResolutionView(cmd[p].aggregate_id, rec.resolution)))
    /\ UNCHANGED <<table, pending, cmd, call, rngHolder, rngDraws, nextEventId,
                   started, appended, overlapped>>
    /\ UNCHANGED dvars

\* get_resolution_by_id from the return of load_events on
get_resolution_by_id(p) ==
    /\ pc[p] = "load"
    /\ cmd[p].kind = "GetResolution"
    /\ LET stored_events == LoadEvents(table, cmd[p].aggregate_id)
           rec == reconstitute(cmd[p].aggregate_id, stored_events)
       IN /\ loaded' = [loaded EXCEPT ![p] = stored_events]
          /\ IF stored_events = <<>>
             THEN /\ Finish(p, ResNotFound(cmd[p].aggregate_id))
                  /\ UNCHANGED resolution
             ELSE IF ~rec.ok
             THEN /\ Finish(p, ResInfrastructure("reconstitute"))
                  /\ UNCHANGED resolution
             ELSE /\ resolution' = [resolution EXCEPT ![p] = rec.resolution]
                  /\ Finish(p, ResView(ResolutionView(cmd[p].aggregate_id,
                                                      rec.resolution)))
    /\ UNCHANGED <<table, pending, cmd, call, rngHolder, rngDraws, nextEventId,
                   started, appended, overlapped>>
    /\ UNCHANGED dvars

HandlerStep(p) ==
    \/ get_resolution_by_id(p)
    \/ Submit(p)
    \/ HandleDeclareIntent(p)
    \/ HandleResolveCheck(p)
    \/ LockRng(p)
    \/ DrawNaturalRoll(p)
    \/ RunResolveCheck(p)
    \/ HandleProduceEffects(p)

Next == \E p \in Procs : HandlerStep(p) \/ StoreStep(p)

Spec == Init /\ [][Next]_vars

----------------------------------------------------------------------------
(* The handlers over a table that another writer has written to *)

\* rows of aggregate a1 found in domain_events: an IntentDeclared event, then
\* an event of another writer whose payload is no RulesEventKind, then an
\* EffectsProduced event
ForeignRows ==
    {ToRow(to_stored_event(RulesEvent(101, "a1", 1, 0, KindIntentDeclared(15, 3)))),
     ToRow(TestEvent(102, "a1", 2, 0)),
     ToRow(to_stored_event(RulesEvent(103, "a1", 3, 0,
            KindEffectsProduced(<<[effect_type |-> "damage", amount |-> 8]>>))))}

InitForeign ==
    /\ table = ForeignRows
    /\ pending = [p \in Procs |-> {}]
    /\ pc = [p \in Procs |-> "idle"]
    /\ cmd = [p \in Procs |-> NoCommand]
    /\ call = [p \in Procs |-> NoCall]
    /\ loaded = [p \in Procs |-> <<>>]
    /\ resolution = [p \in Procs |-> NewResolution("")]
    /\ result = [p \in Procs |-> ResNone]
    /\ rngHolder = "none"
    /\ rngDraws = 0
    /\ nextEventId = 1
    /\ started = 0
    /\ appended = {}
    /\ overlapped = [p \in Procs |-> {}]
    /\ InitDomainIdle

SpecForeign == InitForeign /\ [][Next]_vars

----------------------------------------------------------------------------
(* The aggregate called directly, as the unit tests of the domain do: one
   Resolution and one RNG per run *)

DomainDCs == {15}
DomainModifiers == {3, -2}
\* SequenceRng::new(values): a roll of 15, a value below the range of the die,
\* and a sequence that ends before the third draw
DrawSequences == {<<15, 7, 8>>, <<0, 7, 8>>, <<15, 7>>}
RunAggregate(r) == IF r = "r1" THEN "a1" ELSE "a2"
\* Uuid::new_v4() in run r
RunEventId(r) == <<r, NextSequenceNumber(agg[r])>>

InitAggregate ==
    /\ InitStore
    /\ overflow_checks = TRUE
    /\ agg = [r \in Runs |-> NewResolution(RunAggregate(r))]
    /\ rng \in [Runs -> {SequenceRng(v) : v \in DrawSequences}]
    /\ last = [r \in Runs |-> NoDomainCall]
    /\ fn_in = <<>>
    /\ fn_out = <<>>

DomainCalls == last["r1"].n + last["r2"].n

\* a run can make a call: it has not panicked and calls are left
CanCall(r) == ~last[r].panic /\ DomainCalls < MaxDomainCalls

\* the calls of test_full_lifecycle_declare_resolve_produce, in order
Lifecycle ==
    <<"declare_intent", "apply", "clear_uncommitted_events",
      "resolve_check", "apply", "clear_uncommitted_events",
      "produce_effects", "apply", "clear_uncommitted_events">>

\* the stage after a call of method: one further when the call is the next of
\* Lifecycle and returned Ok, else off the script
NextStage(stage, method, ok) ==
    IF stage >= 0 /\ stage < Len(Lifecycle) /\ ok /\ Lifecycle[stage + 1] = method
    THEN stage + 1
    ELSE -1

\* the record of the call of method on run r that returned d, drew the values
\* drawn and, for produce_effects, was given the list supplied
CalledWith(r, method, d, drawn, supplied) ==
    /\ agg' = [agg EXCEPT ![r] = d.resolution]
    /\ last' = [last EXCEPT ![r] =
            [method |-> method, ok |-> d.ok, panic |-> d.panic, drawn |-> drawn,
             n |-> last[r].n + (IF method = "clear_uncommitted_events" THEN 0 ELSE 1),
             applies |-> last[r].applies + (IF method = "apply" THEN 1 ELSE 0),
             supplied |-> supplied,
             stage |-> NextStage(last[r].stage, method, d.ok)]]

Called(r, method, d, drawn) == CalledWith(r, method, d, drawn, last[r].supplied)

CallDeclareIntent(r) ==
    /\ CanCall(r)
    /\ \E dc \in DomainDCs, modifier \in DomainModifiers, now \in ClockReadings :
        Called(r, "declare_intent",
               declare_intent(agg[r], dc, modifier, RunEventId(r), now), <<>>)
    /\ UNCHANGED <<svars, overflow_checks, rng, fn_in, fn_out>>

CallResolveCheck(r) ==
    /\ CanCall(r)
    /\ \E now \in ClockReadings :
        LET d == resolve_check(agg[r], rng[r], RunEventId(r), now)
        IN /\ Called(r, "resolve_check", d,
                     SubSeq(rng[r].u32_values, rng[r].u32_index + 1, d.rng.u32_index))
           /\ rng' = [rng EXCEPT ![r] = d.rng]
    /\ UNCHANGED <<svars, overflow_checks, fn_in, fn_out>>

CallProduceEffects(r) ==
    /\ CanCall(r)
    /\ \E effects \in EffectLists, now \in ClockReadings :
        CalledWith(r, "produce_effects",
                   produce_effects(agg[r], effects, RunEventId(r), now), <<>>, effects)
    /\ UNCHANGED <<svars, overflow_checks, rng, fn_in, fn_out>>

\* resolution.apply(&event) for an event of the uncommitted buffer
CallApply(r) ==
    /\ CanCall(r)
    /\ \E i \in 1..Len(agg[r].uncommitted_events) :
        Called(r, "apply", DomainOk(apply(agg[r], agg[r].uncommitted_events[i])), <<>>)
    /\ UNCHANGED <<svars, overflow_checks, rng, fn_in, fn_out>>

\* resolution.clear_uncommitted_events(): it cannot fail and adds nothing, so
\* it is not counted against the calls left
CallClear(r) ==
    /\ ~last[r].panic
    /\ Called(r, "clear_uncommitted_events",
              DomainOk(clear_uncommitted_events(agg[r])), <<>>)
    /\ UNCHANGED <<svars, overflow_checks, rng, fn_in, fn_out>>

NextAggregate ==
    \E r \in Runs :
        \/ CallDeclareIntent(r)
        \/ CallResolveCheck(r)
        \/ CallProduceEffects(r)
        \/ CallApply(r)
        \/ CallClear(r)

SpecAggregate == InitAggregate /\ [][NextAggregate]_vars

----------------------------------------------------------------------------
(* Functions called on their own, on arguments drawn at the start *)

\* difficulty classes and totals of the bounded range: every tier is met on
\* both sides of each of its thresholds
OutcomeDCs == (-MaxDC)..MaxDC
OutcomeTotals == (-MaxDC - 7)..(MaxDC + 11)
\* i32 values a command can carry at and next to the ends of the range
ExtremeValues == {I32Min, I32Min + 4, I32Min + 5, I32Max - 10, I32Max - 9, I32Max}

\* the payloads of the stored events reconstitute is called with: one of each
\* kind, and one that is no RulesEventKind
SamplePayloads ==
    {KindIntentDeclared(15, 3),
     KindCheckResolved(CheckId(7, 8), 15, 3, 18, 15, "Success"),
     KindEffectsProduced(<<[effect_type |-> "damage", amount |-> 8]>>),
     TestPayload}

\* a stored event with payload at position i of a list
SampleStored(payload, i) ==
    [event_id |-> i, aggregate_id |-> "a1",
     event_type |-> EventTypeOf(payload), payload |-> payload,
     sequence_number |-> i, occurred_at |-> 0]

EventLists ==
    UNION {{[i \in 1..n |-> SampleStored(ps[i], i)] : ps \in [1..n -> SamplePayloads]} :
           n \in 0..MaxEvents}

\* a history of events of any kinds in any order, followed by the event that
\* apply is called with
HistoriesWithEvent ==
    {l \in EventLists :
        l # <<>> /\ \A i \in 1..Len(l) : CanDeserialize(l[i].payload)}

FunctionInputs ==
    [fn : {"determine_outcome"}, natural_roll : 1..20,
     total : OutcomeTotals, dc : OutcomeDCs \cup ExtremeValues]
    \cup [fn : {"resolve_check"}, natural_roll : {1, 10, 20},
          modifier : {-2, 3} \cup ExtremeValues, dc : {15} \cup ExtremeValues]
    \cup [fn : {"reconstitute"}, events : EventLists]
    \cup [fn : {"apply"}, events : HistoriesWithEvent]

InitFunctions ==
    /\ InitStore
    /\ overflow_checks \in BOOLEAN
    /\ agg = [r \in Runs |-> NewResolution("")]
    /\ rng = [r \in Runs |-> SequenceRng(<<>>)]
    /\ last = [r \in Runs |-> NoDomainCall]
    /\ fn_in \in FunctionInputs
    /\ fn_out = <<>>

\* what a call returned, or that it panicked
Returned(value) == [panic |-> FALSE, value |-> value]
Panicked == [panic |-> TRUE, value |-> <<>>]

CallDetermineOutcome ==
    /\ fn_in.fn = "determine_outcome"
    /\ fn_out = <<>>
    /\ LET outcome == determine_outcome(fn_in.natural_roll, fn_in.total, fn_in.dc)
       IN fn_out' = <<IF outcome = "panic" THEN Panicked ELSE Returned(outcome)>>
    /\ UNCHANGED <<svars, overflow_checks, agg, rng, last, fn_in>>

\* resolve_check on an aggregate whose intent carries the modifier and the
\* difficulty class, with an RNG whose first draw is the natural roll
CallResolveCheckOn ==
    /\ fn_in.fn = "resolve_check"
    /\ fn_out = <<>>
    /\ LET declared == apply(NewResolution("a1"),
                             RulesEvent(1, "a1", 1, 0,
                                        KindIntentDeclared(fn_in.dc, fn_in.modifier)))
           d == resolve_check(declared, SequenceRng(<<fn_in.natural_roll, 7, 8>>), 2, 0)
       IN fn_out' = <<IF d.panic THEN Panicked
                      ELSE Returned(d.resolution.uncommitted_events[1].kind)>>
    /\ UNCHANGED <<svars, overflow_checks, agg, rng, last, fn_in>>

\* reconstitute, called twice on the same list
CallReconstitute ==
    /\ fn_in.fn = "reconstitute"
    /\ Len(fn_out) < 2
    /\ fn_out' = Append(fn_out, Returned(reconstitute("a1", fn_in.events)))
    /\ UNCHANGED <<svars, overflow_checks, agg, rng, last, fn_in>>

\* apply on the aggregate that the events before the last leave, with the
\* last; then resolve_check on the aggregate that apply left
CallApplyOn ==
    /\ fn_in.fn = "apply"
    /\ fn_out = <<>>
    /\ LET n == Len(fn_in.events)
           before == ApplyAll(NewResolution("a1"), SubSeq(fn_in.events, 1, n - 1))
           after == apply(before, FromStored(fn_in.events[n]))
           d == resolve_check(after, SequenceRng(<<15, 7, 8>>), n + 1, 0)
       IN fn_out' = <<Returned([before |-> before, after |-> after,
                                resolved |-> [ok |-> d.ok, panic |-> d.panic]])>>
    /\ UNCHANGED <<svars, overflow_checks, agg, rng, last, fn_in>>

NextFunctions ==
    \/ CallDetermineOutcome
    \/ CallResolveCheckOn
    \/ CallReconstitute
    \/ CallApplyOn

SpecFunctions == InitFunctions /\ [][NextFunctions]_vars

----------------------------------------------------------------------------
(* Properties *)

HandlerKinds == {"DeclareIntent", "ResolveCheck", "ProduceEffects"}

\* the server has committed the batch of p's current call
Committed(p) ==
    \/ pc[p] = "committed"
    \/ pc[p] = "done" /\ result[p].tag = "Ok" /\ call[p].events # <<>>
    \/ pc[p] = "done" /\ result[p].at = "committed"

\* p's call returned an error that says nothing about the version
Broken(p) == result[p].tag \in {"Infrastructure", "Cancelled"}

\* what load_events returns over all aggregates
Visible == UNION {Range(LoadEvents(table, id)) : id \in Aggregates}

\* two handlers on one aggregate that loaded the same version and both called
\* append_events with an event
SameLoad(p, q) ==
    /\ p # q
    /\ cmd[p].kind \in HandlerKinds /\ cmd[q].kind \in HandlerKinds
    /\ cmd[p].aggregate_id = cmd[q].aggregate_id
    /\ Len(loaded[p]) = Len(loaded[q])
    /\ call[p].events # <<>> /\ call[q].events # <<>>

\* C1: of two handlers on one aggregate that loaded the same version and both
\* produced an event, at most one commits; once one has committed, the other
\* returns ConcurrencyConflict for the version it loaded (unless its database
\* call failed or it was dropped) and none of its events is visible.
C1_OneWriterWins ==
    \A p, q \in Procs :
        SameLoad(p, q) =>
            /\ ~(Committed(p) /\ Committed(q))
            /\ (Committed(p) /\ pc[q] = "done" /\ ~Broken(q)) =>
                    /\ result[q].tag = "ConcurrencyConflict"
                    /\ result[q].aggregate_id = cmd[q].aggregate_id
                    /\ result[q].expected = Len(loaded[q])
            /\ Committed(p) => BatchRows(q) \cap Visible = {}

\* two handlers raced past the version check and the loser met the unique index
C1_Witness ==
    \E p, q \in Procs :
        /\ SameLoad(p, q)
        /\ Committed(p)
        /\ result[q].tag = "ConcurrencyConflict"
        /\ result[q].at = "requery"

\* C2: under the command handlers the stored sequence numbers of every
\* aggregate are exactly 1..n, n the number of its rows.
C2_SequenceNumbersContiguous ==
    \A id \in Aggregates :
        {r.sequence_number : r \in RowsOf(table, id)}
            = 1..Cardinality(RowsOf(table, id))

\* three events stored for one aggregate while another handler lost a conflict
C2_Witness ==
    /\ \E id \in Aggregates : Cardinality(RowsOf(table, id)) = 3
    /\ \E p \in Procs : result[p].tag = "ConcurrencyConflict"

PhaseOrder == <<"IntentDeclared", "CheckResolved", "EffectsProduced">>

\* C3: the event kinds stored for one resolution, in sequence order, are a
\* prefix of IntentDeclared, CheckResolved, EffectsProduced.
C3_StoredKindsArePrefix ==
    \A id \in Aggregates :
        LET ev == LoadEvents(table, id)
        IN /\ Len(ev) <= Len(PhaseOrder)
           /\ \A i \in 1..Len(ev) : ev[i].payload.tag = PhaseOrder[i]

\* a resolution with all three events stored, and a handler refused by its guard
C3_Witness ==
    /\ \E id \in Aggregates : Len(LoadEvents(table, id)) = 3
    /\ \E p \in Procs : result[p].tag = "Validation"

\* p's current call is append_events made directly, with a batch in flight
InFlight(p) == pc[p] \in {"begin", "check", "insert", "requery", "commit"}

Succeeded(p) == pc[p] = "done" /\ result[p].tag = "Ok"

\* every event of p's batch carries the aggregate id the call was made for
WellAddressed(p) ==
    \A e \in Range(call[p].events) : e.aggregate_id = call[p].aggregate_id

\* C4: a non-empty batch whose expected_version differs from the aggregate's
\* current maximum sequence number is refused at the version check with
\* ConcurrencyConflict carrying the aggregate id, the expected version and the
\* current maximum, and nothing is stored; no sequence number need collide.
C4_StaleVersionRefused ==
    [][\A p \in Procs :
        ( /\ pc[p] = "check"
          /\ pc'[p] # "check"
          /\ result'[p].tag \notin {"Infrastructure", "Cancelled"}
          /\ CurrentVersion(table, call[p].aggregate_id) # call[p].expected_version )
        => /\ pc'[p] = "done"
           /\ result'[p] = ResConflict(call[p].aggregate_id,
                                       call[p].expected_version,
                                       CurrentVersion(table, call[p].aggregate_id),
                                       "check")
           /\ table' = table
           /\ pending'[p] = {}]_vars

\* a call refused at the version check though none of its rows would have
\* collided with a stored row
C4_Witness ==
    \E p \in Procs :
        /\ pc[p] = "done"
        /\ result[p].tag = "ConcurrencyConflict"
        /\ result[p].at = "check"
        /\ call[p].events # <<>>
        /\ \A r \in BatchRows(p), s \in table : ~Clash(r, s)

\* C5: of two overlapping append_events calls on one aggregate with the same
\* expected_version and non-empty batches, at most one succeeds, also when
\* their sequence numbers do not overlap.
C5_OverlappingAppendsExclude ==
    \A p, q \in Procs :
        ( /\ p # q
          /\ q \in overlapped[p]
          /\ cmd[p].kind = "Append" /\ cmd[q].kind = "Append"
          /\ call[p].aggregate_id = call[q].aggregate_id
          /\ call[p].expected_version = call[q].expected_version
          /\ call[p].events # <<>> /\ call[q].events # <<>>
          /\ WellAddressed(p) /\ WellAddressed(q) )
        => ~(Succeeded(p) /\ Succeeded(q))

\* C6: append_events is all-or-nothing: while the call runs none of its batch
\* is visible; when it returns an error from the version check, a uniqueness
\* violation or a failure before the commit, none is; when it returns success,
\* all of it is.
C6_AllOrNothing ==
    \A p \in Procs :
        call[p].events # <<>> =>
            /\ InFlight(p) => BatchRows(p) \cap Visible = {}
            /\ ( /\ pc[p] = "done"
                 /\ \/ result[p].tag = "ConcurrencyConflict"
                    \/ Broken(p) /\ result[p].at # "committed" )
               => BatchRows(p) \cap Visible = {}
            /\ Succeeded(p) => BatchRows(p) \subseteq Visible

\* a batch of two refused for its second row only: the first row is not stored
C6_Witness ==
    \E p \in Procs :
        /\ pc[p] = "done"
        /\ result[p].tag = "ConcurrencyConflict"
        /\ result[p].at = "requery"
        /\ Len(call[p].events) = 2
        /\ \A s \in table : ~Clash(ToRow(call[p].events[1]), s)

\* C7: when append_events(id, v, batch) with n events commits, the maximum
\* stored sequence number of id is v + n and the stored sequence numbers of id
\* are exactly 1..v+n, whatever sequence numbers the caller put on the events.
C7_CommitYieldsContiguous ==
    [][\A p \in Procs :
        ( /\ pc[p] = "commit" /\ pc'[p] = "committed"
          /\ cmd[p].kind = "Append"
          /\ WellAddressed(p)
          /\ overlapped[p] = {} )
        => LET id == call[p].aggregate_id
               vn == call[p].expected_version + Len(call[p].events)
           IN /\ CurrentVersion(table', id) = vn
              /\ {r.sequence_number : r \in RowsOf(table', id)} = 1..vn]_vars

\* C8: append_events with an empty batch returns success for every
\* expected_version, matching or not, and leaves what load_events returns
\* unchanged for every aggregate.
C8_EmptyBatchIsNoOp ==
    [][\A p \in Procs :
        ( /\ started' = started + 1
          /\ cmd'[p].kind = "Append"
          /\ call'[p].events = <<>> )
        => /\ pc'[p] = "done"
           /\ result'[p] = ResOk(<<>>)
           /\ \A id \in Aggregates : LoadEvents(table', id) = LoadEvents(table, id)]_vars

\* an empty batch accepted with an expected_version that is not the current one
C8_Witness ==
    \E p \in Procs :
        /\ cmd[p].kind = "Append"
        /\ call[p].events = <<>>
        /\ Succeeded(p)
        /\ call[p].expected_version # CurrentVersion(table, call[p].aggregate_id)
        /\ table # {}

\* C9: load_events(id) returns every stored event of id and no other, in
\* strictly ascending sequence_number order whatever the order of appending,
\* and the empty list for an aggregate without events.
C9_LoadIsExactAndOrdered ==
    [][\A p \in Procs :
        ( /\ cmd[p].kind = "Load"
          /\ pc[p] = "load" /\ pc'[p] = "done"
          /\ result'[p].tag = "Ok" )
        => LET ev == result'[p].events
               id == cmd[p].aggregate_id
           IN /\ Range(ev) = {r \in table : r.aggregate_id = id}
              /\ \A i, j \in 1..Len(ev) :
                    i < j => ev[i].sequence_number < ev[j].sequence_number
              /\ (~\E r \in table : r.aggregate_id = id) => ev = <<>>]_vars

\* a load that returned two events in the reverse of the order in which they
\* were appended
C9_Witness ==
    \E p, q \in Procs :
        /\ cmd[p].kind = "Load" /\ Succeeded(p)
        /\ Len(result[p].events) = 2
        /\ result[p].events[1].event_id > result[p].events[2].event_id
        /\ cmd[q].kind = "Append" /\ Succeeded(q)

\* a handler's load_events returns
LoadsNow(p) ==
    /\ pc[p] = "load" /\ pc'[p] # "load"
    /\ ~(result'[p].tag \in {"Infrastructure", "Cancelled"} /\ result'[p].at = "load")

C11_StreamsIsolated ==
    [][\A p \in Procs :
        ( /\ pc[p] = "commit" /\ pc'[p] = "committed"
          /\ cmd[p].kind = "Append" )
        => \A B \in Aggregates \ {call[p].aggregate_id} :
                LoadEvents(table', B) = LoadEvents(table, B)]_vars

\* run r makes a call of method in this step
CallsNow(r, method) == last'[r].n = last[r].n + 1 /\ last'[r].method = method

\* the event the last successful domain call of run r enqueued
LastEnqueued(r) == agg[r].uncommitted_events[Len(agg[r].uncommitted_events)]

\* C12: declare_intent outside Created, resolve_check outside IntentDeclared
\* and produce_effects outside CheckResolved return a Validation error and
\* leave phase, intent, check_result, effects, version and the uncommitted
\* buffer as they were.
C12_PhaseGuardRefuses ==
    [][\A r \in Runs :
        ( \/ CallsNow(r, "declare_intent") /\ agg[r].phase # "Created"
          \/ CallsNow(r, "resolve_check") /\ agg[r].phase # "IntentDeclared"
          \/ CallsNow(r, "produce_effects") /\ agg[r].phase # "CheckResolved" )
        => /\ ~last'[r].ok /\ ~last'[r].panic
           /\ agg'[r].phase = agg[r].phase
           /\ agg'[r].intent = agg[r].intent
           /\ agg'[r].check_result = agg[r].check_result
           /\ agg'[r].effects = agg[r].effects
           /\ agg'[r].version = agg[r].version
           /\ agg'[r].uncommitted_events = agg[r].uncommitted_events]_vars

\* produce_effects refused on one aggregate whose buffer holds an event, and
\* declare_intent refused on the other
C12_Witness ==
    \E r, q \in Runs :
        /\ last[r].method = "produce_effects" /\ ~last[r].ok
        /\ agg[r].uncommitted_events # <<>>
        /\ last[q].method = "declare_intent" /\ ~last[q].ok
        /\ agg[q].phase # "Created"

\* C13: when the domain method called by a command handler returns a
\* Validation error, the handler returns it without having called
\* append_events, and the step changes nothing in the store.
C13_ValidationAppendsNothing ==
    [][\A p \in Procs :
        (pc[p] # "done" /\ pc'[p] = "done" /\ result'[p].tag = "Validation")
        => /\ call[p] = NoCall /\ call'[p] = NoCall
           /\ table' = table
           /\ pending' = pending
           /\ appended' = appended]_vars

\* a handler refused by the phase guard of an aggregate that has stored events
C13_Witness ==
    \E p \in Procs :
        /\ pc[p] = "done"
        /\ result[p].tag = "Validation"
        /\ loaded[p] # <<>>
        /\ table # {}

\* a handler of kind k has returned, for an aggregate whose load_events
\* returned no event
ReturnedOnFresh(p, k) ==
    /\ cmd[p].kind = k
    /\ pc[p] = "done"
    /\ ~Broken(p)
    /\ loaded[p] = <<>>

\* C14 as stated: handle_resolve_check and handle_produce_effects on a
\* resolution id with no stored events return AggregateNotFound.
C14_FreshAggregateNotFound ==
    \A p \in Procs :
        (ReturnedOnFresh(p, "ResolveCheck") \/ ReturnedOnFresh(p, "ProduceEffects"))
            => result[p].tag = "AggregateNotFound"

\* C14: on a resolution id with no stored events handle_resolve_check and
\* handle_produce_effects return a Validation error without calling
\* append_events, and handle_declare_intent goes on to append its event; none
\* of them returns AggregateNotFound.
C14_FreshAggregateValidation ==
    \A p \in Procs :
        /\ (ReturnedOnFresh(p, "ResolveCheck") \/ ReturnedOnFresh(p, "ProduceEffects"))
            => result[p].tag = "Validation" /\ call[p] = NoCall
        /\ ReturnedOnFresh(p, "DeclareIntent")
            => /\ result[p].tag \in {"Ok", "ConcurrencyConflict"}
               /\ Len(call[p].events) = 1

\* both handlers have been refused on ids without events
C14_Witness ==
    \E p, q \in Procs :
        /\ ReturnedOnFresh(p, "ResolveCheck") /\ result[p].tag = "Validation"
        /\ ReturnedOnFresh(q, "ProduceEffects") /\ result[q].tag = "Validation"

\* the phase name of the phase a stored event of this kind leads to
PhaseNameAfter(tag) ==
    CASE tag = "IntentDeclared" -> "intent_declared"
      [] tag = "CheckResolved" -> "check_resolved"
      [] tag = "EffectsProduced" -> "effects_produced"

\* C15: get_resolution_by_id returns AggregateNotFound(id) exactly when
\* load_events(id) is empty; otherwise a view whose version is the number of
\* stored events and whose phase is that of the last stored event; it never
\* calls append_events.
C15_QueryNotFoundOrView ==
    [][\A p \in Procs :
        ( /\ cmd[p].kind = "GetResolution"
          /\ pc[p] = "load" /\ pc'[p] = "done"
          /\ result'[p].tag \notin {"Infrastructure", "Cancelled"} )
        => LET id == cmd[p].aggregate_id
               ev == LoadEvents(table, id)
           IN /\ ev = <<>> <=> result'[p] = ResNotFound(id)
              /\ ev # <<>> =>
                    /\ result'[p].tag = "Ok"
                    /\ result'[p].view # None
                    /\ result'[p].view[1].resolution_id = id
                    /\ result'[p].view[1].version = Len(ev)
                    /\ result'[p].view[1].phase = PhaseNameAfter(ev[Len(ev)].payload.tag)
              /\ call'[p] = NoCall
              /\ table' = table /\ pending' = pending]_vars

\* a query answered with a view of two stored events, another with not found
C15_Witness ==
    \E p, q \in Procs :
        /\ cmd[p].kind = "GetResolution" /\ pc[p] = "done"
        /\ result[p].view # None /\ result[p].view[1].version = 2
        /\ cmd[q].kind = "GetResolution" /\ pc[q] = "done"
        /\ result[q].tag = "AggregateNotFound"

\* determine_outcome was called on arguments of the bounded range and returned
OutcomeOfBounded(out) ==
    /\ fn_in.fn = "determine_outcome"
    /\ fn_in.dc \in OutcomeDCs
    /\ fn_out = <<Returned(out)>>

\* C16: for every natural roll in 1..20 and every total and dc of the bounded
\* range determine_outcome follows the ordered table: a natural 1 is
\* CriticalFailure and a natural 20 CriticalSuccess whatever total and dc are;
\* otherwise total >= dc + 10 is CriticalSuccess, else total >= dc Success,
\* else total >= dc - 5 PartialSuccess, else Failure.
C16_OutcomeTable ==
    (fn_in.fn = "determine_outcome" /\ fn_in.dc \in OutcomeDCs /\ fn_out # <<>>) =>
        LET n == fn_in.natural_roll
            t == fn_in.total
            dc == fn_in.dc
            byRoll == n \in {1, 20}
        IN /\ ~fn_out[1].panic
           /\ fn_out[1].value = "CriticalFailure" <=> n = 1
           /\ fn_out[1].value = "CriticalSuccess" <=> (n = 20 \/ (~byRoll /\ t >= dc + 10))
           /\ fn_out[1].value = "Success" <=> (~byRoll /\ t >= dc /\ t < dc + 10)
           /\ fn_out[1].value = "PartialSuccess" <=> (~byRoll /\ t >= dc - 5 /\ t < dc)
           /\ fn_out[1].value = "Failure" <=> (~byRoll /\ t < dc - 5)

\* a natural 1 with a total that would be a critical success by margin
C16_Witness ==
    /\ OutcomeOfBounded("CriticalFailure")
    /\ fn_in.total >= fn_in.dc + 10

\* C17: determine_outcome and the total of resolve_check return a result for
\* every 32-bit difficulty_class and modifier: no call panics, and none of
\* natural_roll + modifier, dc + 10 and dc - 5 leaves the 32-bit range.
C17_NeverOverflows ==
    /\ (fn_in.fn \in {"determine_outcome", "resolve_check"} /\ fn_out # <<>>)
            => ~fn_out[1].panic
    /\ (fn_in.fn = "resolve_check" /\ fn_out # <<>> /\ ~fn_out[1].panic)
            => ~AddOverflows(fn_out[1].value.natural_roll, fn_in.modifier)
    /\ (fn_in.fn = "determine_outcome" /\ fn_out # <<>> /\ ~fn_out[1].panic
            /\ fn_in.natural_roll \notin {1, 20})
            => ~AddOverflows(fn_in.dc, 10)

\* every payload of the list reconstitute was called with is a RulesEventKind
WellFormedList == \A i \in 1..Len(fn_in.events) : CanDeserialize(fn_in.events[i].payload)

C19_ResolveCheckDeterministic ==
    \A r, q \in Runs :
        ( /\ last[r].method = "resolve_check" /\ last[r].ok
          /\ last[q].method = "resolve_check" /\ last[q].ok
          /\ agg[r].intent = agg[q].intent
          /\ last[r].drawn = last[q].drawn )
        => LET k == LastEnqueued(r).kind
               j == LastEnqueued(q).kind
           IN /\ k.natural_roll = j.natural_roll
              /\ k.modifier = j.modifier
              /\ k.total = j.total
              /\ k.difficulty_class = j.difficulty_class
              /\ k.outcome = j.outcome
              /\ k.check_id = j.check_id

\* two aggregates with different ids resolved the same intent with the same
\* draws, under different event ids
C19_Witness ==
    /\ last["r1"].method = "resolve_check" /\ last["r1"].ok
    /\ last["r2"].method = "resolve_check" /\ last["r2"].ok
    /\ agg["r1"].intent = agg["r2"].intent
    /\ last["r1"].drawn = last["r2"].drawn
    /\ agg["r1"].id # agg["r2"].id
    /\ LastEnqueued("r1").metadata.event_id # LastEnqueued("r2").metadata.event_id

----------------------------------------------------------------------------
\* C21: when the INSERT of append_events breaks the uniqueness of
\* (aggregate_id, sequence_number), the call goes on to read the aggregate's
\* current version, and what the caller receives is ConcurrencyConflict with
\* the call's aggregate_id, expected = expected_version and actual = the max
\* stored sequence number at the time of that read; it is Infrastructure only
\* when an awaited database call itself fails (or the task is dropped)
SeqViolation(p) ==
    \/ \E i, j \in 1..Len(call[p].events) :
          /\ i < j
          /\ call[p].events[i].aggregate_id = call[p].events[j].aggregate_id
          /\ call[p].events[i].sequence_number = call[p].events[j].sequence_number
    \/ \E e \in Range(call[p].events), s \in table :
          /\ e.aggregate_id = s.aggregate_id
          /\ e.sequence_number = s.sequence_number

C21_UniqueViolationIsConflict ==
    [][\A p \in Procs :
          /\ (pc[p] = "insert" /\ SeqViolation(p) /\ pc'[p] # "insert")
                => \/ pc'[p] = "requery"
                   \/ result'[p].tag \in {"Infrastructure", "Cancelled"}
          /\ (pc[p] = "requery" /\ pc'[p] # "requery")
                => \/ result'[p] =
                         ResConflict(call[p].aggregate_id, call[p].expected_version,
                                     CurrentVersion(table, call[p].aggregate_id),
                                     "requery")
                   \/ result'[p].tag \in {"Infrastructure", "Cancelled"}]_vars

\* a writer that passed the version check lost to a concurrent commit and was
\* told the version the winner left behind
C21_Witness ==
    \E p \in Procs :
        /\ pc[p] = "done"
        /\ result[p].tag = "ConcurrencyConflict"
        /\ result[p].at = "requery"
        /\ result[p].aggregate_id = call[p].aggregate_id
        /\ result[p].actual > result[p].expected

\* C22: a command handler does not retry. load_events is entered only when an
\* invocation starts; append_events is entered once at most, straight from the
\* domain method, and its arguments stay what they were; and a
\* ConcurrencyConflict the handler returns is the one append_events produced at
\* its version check or after the unique violation, for the handler's own
\* aggregate, the version it passed and the version the store read.
C22_NoRetry ==
    [][\A p \in Procs :
          /\ (pc[p] # "load" /\ pc'[p] = "load")
                => pc[p] \in {"idle", "done"} /\ started' = started + 1
          /\ (pc[p] # "begin" /\ pc'[p] = "begin")
                => pc[p] \in {"load", "rolled"} /\ call[p] = NoCall
          /\ (Running(p) /\ call[p] # NoCall) => call'[p] = call[p]
          /\ (pc[p] # "done" /\ pc'[p] = "done"
                /\ result'[p].tag = "ConcurrencyConflict")
                => /\ pc[p] \in {"check", "requery"}
                   /\ call[p].aggregate_id = cmd[p].aggregate_id
                   /\ result'[p] =
                         ResConflict(call[p].aggregate_id, call[p].expected_version,
                                     CurrentVersion(table, call[p].aggregate_id),
                                     pc[p])]_vars

\* a handler that loaded one event returned the conflict of the version check
\* after another handler had committed the second event
C22_Witness ==
    \E p \in Procs :
        /\ cmd[p].kind \in HandlerKinds
        /\ pc[p] = "done"
        /\ result[p].tag = "ConcurrencyConflict"
        /\ result[p].at = "check"
        /\ Len(loaded[p]) = 1
        /\ result[p].expected = 1 /\ result[p].actual = 2

\* C24: the expected_version a Resolution command handler passes to
\* append_events is the number of events its load_events returned, and the
\* batch is one event whose sequence_number is that number + 1; for an id
\* without events these are 0 and 1.
C24_ExpectedVersionIsLoadedCount ==
    \A p \in Procs :
        (cmd[p].kind \in HandlerKinds /\ call[p] # NoCall) =>
            /\ call[p].aggregate_id = cmd[p].aggregate_id
            /\ call[p].expected_version = Len(loaded[p])
            /\ Len(call[p].events) = 1
            /\ call[p].events[1].sequence_number = Len(loaded[p]) + 1
            /\ loaded[p] = <<>> =>
                    /\ call[p].expected_version = 0
                    /\ call[p].events[1].sequence_number = 1

\* one handler appended the first event of an id, another the third of an id
C24_Witness ==
    \E p, q \in Procs :
        /\ Succeeded(p) /\ cmd[p].kind = "DeclareIntent"
        /\ loaded[p] = <<>> /\ call[p].expected_version = 0
        /\ Succeeded(q) /\ cmd[q].kind = "ProduceEffects"
        /\ Len(loaded[q]) = 2 /\ call[q].events[1].sequence_number = 3

\* C30: the RNG lock is held only between the return of load_events and the
\* call of append_events: its holder stands at the synchronous resolve_check,
\* no task inside load_events or append_events holds it, and the step that
\* runs resolve_check gives it up, also when resolve_check returns a
\* Validation error.
C30_LockNotHeldAcrossAwait ==
    [][\A p \in Procs :
          /\ rngHolder = p => pc[p] \in {"locked", "rolled"}
          /\ pc[p] \in AwaitPoints => rngHolder # p
          /\ (pc[p] \in {"locked", "rolled"} /\ pc'[p] \notin {"locked", "rolled"})
                => rngHolder' # p
          /\ (pc[p] = "locked" /\ result'[p].tag = "Validation")
                => rngHolder' = "none"]_vars

\* a task holds the lock after the resolve_check of the other, refused by its
\* guard, had given it up, and rows are stored
C30_Witness ==
    \E p, q \in Procs :
        /\ cmd[p].kind = "ResolveCheck"
        /\ pc[p] = "done" /\ result[p].tag = "Validation"
        /\ rngHolder = q /\ pc[q] = "locked"
        /\ table # {}
\* C23: declare_intent, resolve_check and produce_effects called in this order
\* on a new Resolution, each followed by apply of the uncommitted events and
\* clear_uncommitted_events, give version 1 and phase IntentDeclared after the
\* first round, version 2 and phase CheckResolved after the second, and after
\* the third version 3, phase EffectsProduced, intent and check_result set and
\* effects equal to the list supplied.
C23_FullLifecycle ==
    \A r \in Runs :
        /\ last[r].stage = 3 =>
            /\ agg[r].version = 1 /\ agg[r].phase = "IntentDeclared"
            /\ agg[r].uncommitted_events = <<>>
        /\ last[r].stage = 6 =>
            /\ agg[r].version = 2 /\ agg[r].phase = "CheckResolved"
            /\ agg[r].uncommitted_events = <<>>
        /\ last[r].stage = 9 =>
            /\ agg[r].version = 3 /\ agg[r].phase = "EffectsProduced"
            /\ agg[r].intent # None
            /\ agg[r].check_result # None
            /\ agg[r].effects = last[r].supplied
            /\ agg[r].uncommitted_events = <<>>

\* a run has made the nine calls of the lifecycle, the last a produce_effects
\* with a non-empty list
C23_Witness ==
    \E r \in Runs :
        /\ last[r].stage = Len(Lifecycle)
        /\ last[r].applies = 3
        /\ last[r].supplied # <<>>

\* the fields of run r's aggregate that apply sets are what they were
StateKept(r) ==
    /\ agg'[r].phase = agg[r].phase
    /\ agg'[r].intent = agg[r].intent
    /\ agg'[r].check_result = agg[r].check_result
    /\ agg'[r].effects = agg[r].effects
    /\ agg'[r].version = agg[r].version

\* C25: a successful declare_intent, resolve_check or produce_effects puts
\* exactly one event at the end of the uncommitted buffer and leaves phase,
\* intent, check_result, effects and version as they were; a step that changes
\* one of these is a call of apply.
C25_DomainMethodsOnlyEnqueue ==
    [][\A r \in Runs :
          /\ ( /\ \/ CallsNow(r, "declare_intent")
                  \/ CallsNow(r, "resolve_check")
                  \/ CallsNow(r, "produce_effects")
               /\ last'[r].ok )
             => /\ Len(agg'[r].uncommitted_events)
                        = Len(agg[r].uncommitted_events) + 1
                /\ SubSeq(agg'[r].uncommitted_events, 1,
                          Len(agg[r].uncommitted_events))
                        = agg[r].uncommitted_events
                /\ StateKept(r)
          /\ ~StateKept(r) => CallsNow(r, "apply")]_vars

\* a resolve_check that succeeded on an aggregate whose buffer already held
\* the applied IntentDeclared event: two events pending, phase IntentDeclared
C25_Witness ==
    \E r \in Runs :
        /\ last[r].method = "resolve_check" /\ last[r].ok
        /\ Len(agg[r].uncommitted_events) = 2
        /\ agg[r].phase = "IntentDeclared"
        /\ agg[r].version = 1
        /\ agg[r].check_result = None

\* run r's aggregate has an IntentDeclared event: applied, or pending in the
\* uncommitted buffer
HasIntentDeclared(r) ==
    \/ agg[r].intent # None
    \/ \E i \in 1..Len(agg[r].uncommitted_events) :
            agg[r].uncommitted_events[i].kind.tag = "IntentDeclared"

\* C26: declare_intent returns a Validation error on an instance that has an
\* IntentDeclared event, applied or still pending in its uncommitted buffer,
\* and the uncommitted buffer of an instance never holds two events of one
\* kind.
C26_DeclareIntentRefusedOnce ==
    [][\A r \in Runs :
          /\ (CallsNow(r, "declare_intent") /\ HasIntentDeclared(r))
                => ~last'[r].ok /\ ~last'[r].panic
          /\ \A i, j \in 1..Len(agg'[r].uncommitted_events) :
                i < j => agg'[r].uncommitted_events[i].kind.tag
                            # agg'[r].uncommitted_events[j].kind.tag]_vars

\* C27: at every point of every sequence of domain methods, apply and
\* clear_uncommitted_events on one instance, the k-th event of the uncommitted
\* buffer (k from 1) has sequence_number = version + k.
C27_BufferNumberedFromVersion ==
    \A r \in Runs :
        \A k \in 1..Len(agg[r].uncommitted_events) :
            agg[r].uncommitted_events[k].metadata.sequence_number
                = agg[r].version + k

\* C28: the version of an instance is the number of apply calls made on it
\* since construction: a call of apply adds exactly 1, every other step (a
\* domain method, successful or not, or clear_uncommitted_events) leaves it as
\* it was, and it never decreases.
C28_VersionCountsApplies ==
    [][\A r \in Runs :
          /\ agg[r].version = last[r].applies
          /\ agg'[r].version = last'[r].applies
          /\ CallsNow(r, "apply") => agg'[r].version = agg[r].version + 1
          /\ ~CallsNow(r, "apply") => agg'[r].version = agg[r].version
          /\ agg'[r].version >= agg[r].version]_vars

\* an instance on which one buffered event was applied twice, a domain method
\* was refused and the buffer was cleared
C28_Witness ==
    \E r \in Runs :
        /\ last[r].applies = 2
        /\ agg[r].version = 2
        /\ agg[r].phase = "IntentDeclared"
        /\ last[r].method = "declare_intent" /\ ~last[r].ok
        /\ agg[r].uncommitted_events = <<>>

\* C29: apply succeeds for every Resolution state and every event kind and
\* checks no phase: the phase becomes that of the event's kind whatever it was,
\* the payload is stored in the field of that kind, the other fields stay and
\* version grows by 1; so reconstitute of a history in any order ends in the
\* phase of its last event.
C29_ApplyIsTotal ==
    /\ (fn_in.fn = "apply" /\ fn_out # <<>>) =>
            LET k == fn_in.events[Len(fn_in.events)].payload
                b == fn_out[1].value.before
                a == fn_out[1].value.after
            IN /\ ~fn_out[1].panic
               /\ a.phase = k.tag
               /\ a.version = b.version + 1
               /\ a.id = b.id
               /\ a.uncommitted_events = b.uncommitted_events
               /\ a.intent = IF k.tag = "IntentDeclared"
                             THEN Some([difficulty_class |-> k.difficulty_class,
                                        modifier |-> k.modifier])
                             ELSE b.intent
               /\ a.check_result = IF k.tag = "CheckResolved"
                                   THEN Some([check_id |-> k.check_id,
                                              natural_roll |-> k.natural_roll,
                                              modifier |-> k.modifier,
                                              total |-> k.total,
                                              difficulty_class |-> k.difficulty_class,
                                              outcome |-> k.outcome])
                                   ELSE b.check_result
               /\ a.effects = IF k.tag = "EffectsProduced" THEN k.effects
                              ELSE b.effects
    /\ (fn_in.fn = "reconstitute" /\ WellFormedList /\ fn_in.events # <<>>
            /\ fn_out # <<>>) =>
            /\ fn_out[1].value.ok
            /\ fn_out[1].value.resolution.phase
                    = fn_in.events[Len(fn_in.events)].payload.tag

\* an IntentDeclared event applied to an aggregate in phase EffectsProduced
C29_Witness ==
    /\ fn_in.fn = "apply"
    /\ fn_out # <<>>
    /\ fn_out[1].value.before.phase = "EffectsProduced"
    /\ fn_out[1].value.before.version = 2
    /\ fn_out[1].value.after.phase = "IntentDeclared"
    /\ fn_out[1].value.after.effects # <<>>

\* C32: every ConcurrencyConflict that append_events returns, from the version
\* check or after a unique violation, has actual different from expected,
\* also for a batch that repeats a sequence_number or reuses a stored
\* event_id.
C32_ConflictActualDiffers ==
    \A p \in Procs :
        (pc[p] = "done" /\ result[p].tag = "ConcurrencyConflict")
            => result[p].actual # result[p].expected

\* s is an initial part of t
IsPrefix(s, t) == Len(s) <= Len(t) /\ SubSeq(t, 1, Len(s)) = s

\* C34: under the command handlers the log of every aggregate only grows at
\* its end: what load_events returns before a step is a prefix of what it
\* returns after it, and what a handler or query loaded earlier is a prefix of
\* what load_events returns now; no stored event is removed, reordered,
\* changed or preceded by a new one.
C34_LogIsAppendOnly ==
    [][/\ \A id \in Aggregates :
            IsPrefix(LoadEvents(table, id), LoadEvents(table', id))
       /\ \A p \in Procs :
            (cmd'[p] = cmd[p] /\ cmd[p].kind # "None")
                => IsPrefix(loaded'[p], LoadEvents(table', cmd[p].aggregate_id))]_vars

\* a handler that loaded one event of an aggregate that has three by now
C34_Witness ==
    \E p \in Procs :
        /\ cmd[p].kind \in HandlerKinds
        /\ Len(loaded[p]) = 1
        /\ Len(LoadEvents(table, cmd[p].aggregate_id)) = 3
        /\ IsPrefix(loaded[p], LoadEvents(table, cmd[p].aggregate_id))

\* the stored events of id hold a payload that is no RulesEventKind
HasMalformed(id) ==
    \E i \in 1..Len(LoadEvents(table, id)) : ~Deserializable(LoadEvents(table, id)[i])

\* C31: when a stored payload of the aggregate cannot be deserialized, the
\* command or query handler returns Infrastructure from reconstitution: no
\* event is applied to an aggregate the handler goes on with, no domain method
\* runs (no draw from the RNG, no event built), append_events is not called
\* and the store is left as it was.
C31_MalformedPayloadIsFatal ==
    [][\A p \in Procs :
        ( /\ pc[p] = "load" /\ pc'[p] # "load"
          /\ cmd[p].kind \in HandlerKinds \cup {"GetResolution"}
          /\ HasMalformed(cmd[p].aggregate_id)
          /\ result'[p].tag # "Cancelled"
          /\ result'[p] # ResInfrastructure("load") )
        => /\ pc'[p] = "done"
           /\ result'[p] = ResInfrastructure("reconstitute")
           /\ resolution'[p] = NewResolution(cmd[p].aggregate_id)
           /\ call'[p] = NoCall
           /\ table' = table /\ pending' = pending
           /\ rngDraws' = rngDraws /\ rngHolder' = rngHolder
           /\ nextEventId' = nextEventId]_vars

\* a query and a ProduceEffects command both failed on the aggregate with the
\* malformed second event, while a command on the other aggregate stored one
C31_Witness ==
    \E p, q \in Procs :
        /\ cmd[p].kind = "GetResolution" /\ cmd[p].aggregate_id = "a1"
        /\ pc[p] = "done" /\ result[p] = ResInfrastructure("reconstitute")
        /\ Len(loaded[p]) = 3
        /\ cmd[q].kind = "ProduceEffects" /\ cmd[q].aggregate_id = "a1"
        /\ pc[q] = "done" /\ result[q] = ResInfrastructure("reconstitute")
        /\ table # ForeignRows

\* the payload that phase r.phase promises is there
PhaseHasPayload(r) ==
    /\ r.phase = "IntentDeclared" => r.intent # None
    /\ r.phase = "CheckResolved" => r.check_result # None

\* C33: in every Resolution state that apply reaches from a new aggregate,
\* with events of any kinds in any order, phase IntentDeclared comes with an
\* intent and phase CheckResolved with a check_result; so resolve_check on such
\* a state returns Ok exactly in phase IntentDeclared, a Validation error
\* otherwise, and never panics for a missing intent.
C33_PhaseImpliesPayload ==
    (fn_in.fn = "apply" /\ fn_out # <<>>) =>
        /\ PhaseHasPayload(fn_out[1].value.before)
        /\ PhaseHasPayload(fn_out[1].value.after)
        /\ ~fn_out[1].value.resolved.panic
        /\ fn_out[1].value.resolved.ok <=> fn_out[1].value.after.phase = "IntentDeclared"

\* an IntentDeclared event applied to an aggregate in phase CheckResolved that
\* never had an intent: resolve_check finds the intent and succeeds
C33_Witness ==
    /\ fn_in.fn = "apply"
    /\ fn_out # <<>>
    /\ fn_out[1].value.before.phase = "CheckResolved"
    /\ fn_out[1].value.before.intent = None
    /\ fn_out[1].value.after.phase = "IntentDeclared"
    /\ fn_out[1].value.resolved.ok

\* C36: the three draws of one resolve_check are consecutive in the draw
\* sequence of the shared RNG: from its natural-roll draw to its two check_id
\* draws the command holds the lock, and the only step that draws is its own,
\* which takes the next two values.
C36_DrawsAreConsecutive ==
    [][\A p \in Procs :
        pc[p] = "rolled" =>
            /\ rngHolder = p
            /\ rngDraws' # rngDraws
                => /\ pc'[p] # "rolled"
                   /\ rngDraws' = rngDraws + 2]_vars

\* a command has drawn its natural roll as the fourth draw while the other
\* command waits for the lock
C36_Witness ==
    \E p, q \in Procs :
        /\ pc[p] = "rolled"
        /\ pc[q] = "lock"
        /\ rngDraws = 4

----------------------------------------------------------------------------
(* The handlers over a resolution whose declared modifier is i32::MAX *)

\* the row handle_declare_intent stored for DeclareIntent(a1, 15, i32::MAX)
OverflowRows ==
    {ToRow(to_stored_event(RulesEvent(101, "a1", 1, 0, KindIntentDeclared(15, I32Max))))}

InitOverflow ==
    /\ table = OverflowRows
    /\ pending = [p \in Procs |-> {}]
    /\ pc = [p \in Procs |-> "idle"]
    /\ cmd = [p \in Procs |-> NoCommand]
    /\ call = [p \in Procs |-> NoCall]
    /\ loaded = [p \in Procs |-> <<>>]
    /\ resolution = [p \in Procs |-> NewResolution("")]
    /\ result = [p \in Procs |-> ResNone]
    /\ rngHolder = "none"
    /\ rngDraws = 0
    /\ nextEventId = 1
    /\ started = 0
    /\ appended = {}
    /\ overlapped = [p \in Procs |-> {}]
    /\ InitDomainIdle

SpecOverflow == InitOverflow /\ [][Next]_vars

\* C37: a handle_resolve_check whose phase guard passes advances the shared
\* RNG by three draws (one for the natural roll, then two for check_id), one
\* whose guard fails by none and returns Validation; the draws are never taken
\* back, and a command that ends with ConcurrencyConflict has stored none of
\* its events.
C37_ThreeDrawsIffGuardPasses ==
    [][/\ rngDraws' >= rngDraws
       /\ \A p \in Procs :
            /\ pc[p] = "locked" /\ pc'[p] # "locked"
                => IF ResolveCheckGuard(resolution[p])
                   THEN pc'[p] = "rolled" /\ rngDraws' = rngDraws + 1
                   ELSE result'[p] = ResValidation /\ rngDraws' = rngDraws
            /\ pc[p] = "rolled" /\ pc'[p] # "rolled"
                => rngDraws' = rngDraws + 2
            /\ (/\ cmd[p].kind = "ResolveCheck"
                /\ pc[p] # "done"
                /\ pc'[p] = "done"
                /\ result'[p].tag = "ConcurrencyConflict")
                => /\ rngDraws' = rngDraws
                   /\ \A i \in 1..Len(call[p].events) :
                        \A row \in table' : row.event_id # call[p].events[i].event_id]_vars

\* C38: once the RNG mutex is poisoned it stays poisoned, and every
\* handle_resolve_check that comes to rng.lock() returns Infrastructure there,
\* whatever the phase of its resolution: it draws nothing, calls no
\* append_events and stores no row. The other handlers never fail at the lock,
\* and a DeclareIntent on a fresh aggregate still goes on to append_events.
C38_PoisonedLockIsInfrastructure ==
    [][rngHolder = "poisoned" =>
        /\ rngHolder' = "poisoned"
        /\ rngDraws' = rngDraws
        /\ \A p \in Procs :
            /\ (pc[p] = "lock" /\ pc'[p] # "lock")
                => /\ pc'[p] = "done"
                   /\ result'[p] = ResInfrastructure("lock")
                   /\ call'[p] = NoCall
                   /\ table' = table
                   /\ nextEventId' = nextEventId
            /\ (cmd[p].kind = "ResolveCheck" /\ pc[p] \in {"load", "lock"})
                => /\ pc'[p] \in {"load", "lock", "done"}
                   /\ call'[p] = NoCall
                   /\ pc'[p] = "done" /\ pc[p] = "load"
                        => result'[p].tag \in {"Infrastructure", "Cancelled"}
            /\ (cmd[p].kind # "ResolveCheck" /\ pc[p] # "done" /\ pc'[p] = "done")
                => result'[p].at # "lock"
            /\ (/\ cmd[p].kind = "DeclareIntent"
                /\ pc[p] = "load"
                /\ pc'[p] # "load"
                /\ LoadEvents(table, cmd[p].aggregate_id) = <<>>
                /\ result'[p].tag \notin {"Infrastructure", "Cancelled"})
                => /\ pc'[p] = "begin"
                   /\ Len(call'[p].events) = 1]_vars

\* the mutex is poisoned; a ResolveCheck on the fresh aggregate a2, whose phase
\* Created would have given Validation, has returned Infrastructure at the
\* lock, and a DeclareIntent has its events loaded next
C38_Witness ==
    \E p, q \in Procs :
        /\ rngHolder = "poisoned"
        /\ pc[p] = "done"
        /\ cmd[p].kind = "ResolveCheck"
        /\ cmd[p].aggregate_id = "a2"
        /\ resolution[p].phase = "Created"
        /\ result[p] = ResInfrastructure("lock")
        /\ pc[q] = "load"
        /\ cmd[q].kind = "DeclareIntent"

----------------------------------------------------------------------------
(* The handlers run to their end: no task is dropped, every task that can take
   a step is scheduled, and the database server answers every statement *)

\* the steps of task p that the runtime and the server take once they can
Progress(p) ==
    \/ get_resolution_by_id(p)
    \/ HandleDeclareIntent(p)
    \/ HandleResolveCheck(p)
    \/ LockRng(p)
    \/ DrawNaturalRoll(p)
    \/ RunResolveCheck(p)
    \/ HandleProduceEffects(p)
    \/ Begin(p)
    \/ CheckVersion(p)
    \/ Insert(p)
    \/ Requery(p)
    \/ ServerCommit(p)
    \/ CommitAck(p)

NextLive ==
    \E p \in Procs : SubmitUpTo(p, MaxLiveCommands) \/ Progress(p)

\* a task that can go on is polled, a statement sent is answered
Fairness == \A p \in Procs : WF_vars(Progress(p))

SpecLive == Init /\ [][NextLive]_vars /\ Fairness

ReturnedResult(p) ==
    /\ pc[p] = "done"
    /\ result[p].tag \in {"Ok", "AggregateNotFound", "ConcurrencyConflict",
                          "Validation", "Infrastructure"}

\* C39: no deadlock. Every handler invocation that has started eventually
\* returns its events or view (Ok) or one of AggregateNotFound,
\* ConcurrencyConflict, Validation, Infrastructure, and every handler that
\* waits for the RNG lock eventually holds it.
C39_EveryHandlerReturns ==
    \A p \in Procs :
        /\ Running(p) ~> ReturnedResult(p)
        /\ (pc[p] = "lock") ~> (pc[p] = "locked" /\ rngHolder = p)

\* two ResolveCheck commands ran at the same time on one resolution and both
\* have returned, one with its event and one with ConcurrencyConflict, after
\* each of them drew its three values under the lock
C39_Witness ==
    \E p, q \in Procs :
        /\ p # q
        /\ q \in overlapped[p] \/ p \in overlapped[q]
        /\ cmd[p].kind = "ResolveCheck"
        /\ cmd[q].kind = "ResolveCheck"
        /\ ReturnedResult(p)
        /\ ReturnedResult(q)
        /\ result[p].tag = "Ok"
        /\ result[q].tag = "ConcurrencyConflict"
        /\ rngDraws = 6

\* task p has called append_events on aggregate id with a batch that is not
\* empty and with the aggregate's current version
CallsAppendAtCurrent(p, id, v) ==
    /\ pc[p] = "begin"
    /\ call[p].aggregate_id = id
    /\ call[p].events # <<>>
    /\ call[p].expected_version = v
    /\ CurrentVersion(table, id) = v

\* C35: progress without retry. Once a handler has called append_events with a
\* non-empty batch and the aggregate's current version, one of the calls made
\* with that version commits: the aggregate's version grows. And a call ends
\* with ConcurrencyConflict only when another writer's event is stored beyond
\* its expected_version, so concurrent writers never all fail.
C35_SomeWriterCommits ==
    /\ [](\A p \in Procs :
            pc[p] = "done" /\ result[p].tag = "ConcurrencyConflict"
                => CurrentVersion(table, call[p].aggregate_id) > call[p].expected_version)
    /\ \A id \in Aggregates, v \in 0..MaxLiveCommands :
        (\E p \in Procs : CallsAppendAtCurrent(p, id, v))
            ~> (CurrentVersion(table, id) > v)

\* two DeclareIntent commands ran at the same time on one fresh resolution,
\* both called append_events with version 0; one has committed its event and
\* the other has returned ConcurrencyConflict after the unique violation
C35_Witness ==
    \E p, q \in Procs :
        /\ p # q
        /\ cmd[p].kind = "DeclareIntent"
        /\ cmd[q].kind = "DeclareIntent"
        /\ call[p].aggregate_id = call[q].aggregate_id
        /\ call[p].expected_version = 0
        /\ call[q].expected_version = 0
        /\ pc[p] = "done"
        /\ result[p].tag = "Ok"
        /\ pc[q] = "done"
        /\ result[q] = ResConflict(call[q].aggregate_id, 0, 1, "requery")

====
